---- MODULE Spec2Model ----
(***************************************************************************)
(* Task lifecycle and stream broadcast of the EVERYDAYAIONE backend:       *)
(*   - ChatStreamManager   (services/chat_stream_manager.py)               *)
(*   - BackgroundTaskWorker (services/background_task_worker.py)           *)
(*   - mark_task_failed     (api/routes/task.py)                           *)
(*   - TaskBuffer           (services/websocket_manager.py)                *)
(*                                                                         *)
(* Scheduling model: one asyncio event loop.  Code between two suspensions *)
(* is one atomic action.  The coroutines suspend where they wait for the   *)
(* provider (next chunk of the stream, query_task) or sleep; the awaits of *)
(* the message service and of deduct_user_credits run synchronous database *)
(* calls and never yield to the loop.  The database, the message store and *)
(* the credit ledger answer every call; the provider may fail, and the     *)
(* producer may be cancelled.                                              *)
(***************************************************************************)
EXTENDS Integers, Sequences, FiniteSets, TLC

(***************************************************************************)
(* Bounds of the model.                                                    *)
(***************************************************************************)
\* longest provider stream, in chunks
MaxChunks == 5
\* largest last_received_index a late subscriber presents
MaxJoinIndex == 2
\* the clock stops advancing here (minutes)
MaxNow == 15
\* number of add_message calls on the TaskBuffer
MaxAdds == 4
\* the TaskBuffer clock stops advancing here (seconds)
MaxBufNow == 700
\* number of connect calls on the WebSocketManager
MaxConnects == 7
\* number of send_to_task_subscribers calls
MaxSends == 2
\* number of subscribe messages the WebSocket route handles
MaxSubscribes == 2
\* calls of start_stream_processing
MaxStarts == 3
\* calls of lock_credits, credit_lock and refund_credits
MaxCalls == 3
\* requests of send_message_stream
MaxRequests == 3
\* calls of deduct_user_credits
MaxDeducts == 2
\* time.time() up to which the cleanup loop of the WebSocketManager is followed
MaxCleanupNow == 2400

(***************************************************************************)
(* Program constants.                                                      *)
(***************************************************************************)
\* chat_stream_manager.py:35 sets 500; the model keeps the same eviction
\* rule on a buffer of 5, which holds the five events of a three-chunk
\* stream and overflows on a stream of MaxChunks chunks.
MAX_BUFFER_SIZE == 5
\* background_task_worker.py:254
CHAT_TASK_TIMEOUT_MINUTES == 10
\* core/task_config.py (not part of the sources at hand)
IMAGE_TASK_TIMEOUT_MINUTES == 5
VIDEO_TASK_TIMEOUT_MINUTES == 10
\* websocket_manager.py:34 and :36
MAX_BUFFER_SIZE_BYTES == 1048576
BUFFER_MAX_AGE_SECONDS == 300
\* websocket_manager.py:38
MAX_CONNECTIONS_PER_USER == 5
HEARTBEAT_TIMEOUT == 60
\* rounds of the polling loop of resume_chat_stream, 600 in the program
max_polls == 3
\* settings.rate_limit_global_tasks and rate_limit_conversation_tasks, 15
\* and 5 in the program
global_limit == 2
conversation_limit == 1
\* the credits a user row is created with
SignupCredits == 100
BUFFER_CLEANUP_INTERVAL == 600

(***************************************************************************)
(* Identities and input sets.                                              *)
(***************************************************************************)
\* the chat task served by the in-process producer, and two generation
\* tasks that run at the provider; the tasks table holds either the chat
\* task or the generation tasks
ChatTask == "chat-1"
GenTasks == {"gen-1", "gen-2"}
AllTasks == {ChatTask} \cup GenTasks

FirstConn == "c0"
LateConns == {"c1"}
AllConns == {FirstConn} \cup LateConns

Terminal == {"completed", "failed"}
NonTerminal == {"pending", "running"}

\* text of the i-th content chunk of the provider stream
ChunkText(i) == <<"A", "B", "C", "D", "E", "F", "G", "H">>[i]

\* chunks of the provider stream: a content delta without usage, or a frame
\* without content that carries the usage; usage is -1 for "none", otherwise
\* the credits adapter.estimate_cost derives from it (0 when the token
\* counts round to 0)
StreamChunks ==
    {[hasContent |-> TRUE, usage |-> -1],
     [hasContent |-> FALSE, usage |-> 0],
     [hasContent |-> FALSE, usage |-> 2]}

\* answers of adapter.query_task, "raise" for an exception
ProviderAnswers == {"raise", "pending", "processing", "success", "failed"}

\* conversation_id of a stored task: absent, owned by the task's user, or
\* owned by somebody else
ConvKinds == {"none", "owned", "foreign"}

\* sizes in bytes of the messages handed to TaskBuffer.add_message
MsgSizes == {400000, 700000, 1048576, 1048577}
\* minutes by which the wall clock advances in one step
ClockSteps == {5}
\* seconds that pass between two TaskBuffer operations
TimeSteps == {150, 300, 301}

\* users that hold WebSocket connections, and the user_id of each task row
Users == {"u1", "u2"}
TaskOwner(t) == IF t = ChatTask THEN "u1" ELSE "u2"
\* connection ids (uuid4 in the source, numbered in the order of connect)
WsConnIds == 1..(MaxConnects + 1)
\* tasks that connections subscribe to over the WebSocket path, and the
\* ones among them that have messages pushed
WsTasks == {ChatTask, "gen-1"}
PushedTasks == {ChatTask}
\* last_index of a subscribe message: nothing received yet, or message 0
LastIndexes == {-1, 0}
\* encoded length of a message handed to send_to_task_subscribers
WsMsgSizes == {600000}
\* seconds that pass between two WebSocketManager operations
WsTimeSteps == {301}
\* amounts that are locked or deducted: a part of the balance, all of it
Amounts == {40, 100}
\* how the body of an "async with credit_lock(...)" block ends: it returns,
\* it raises an Exception, or its coroutine is cancelled (CancelledError)
BodyExits == {"normal", "raises", "cancelled"}

\* the transactions refund_credits is called for: the one locked by the
\* first call, and an id that no transaction has
RefundTargets == {1, MaxCalls + 1}
\* conversations of the user that sends messages
Conversations == {"conv-1", "conv-2"}
\* _global_key(user_id) and _conversation_key(user_id, conversation_id)
GlobalKey == "global"
LimitKeys == {GlobalKey} \cup Conversations
\* how the response of send_message_stream ends: the stream completes, it
\* raises, the client disconnects while the generator is suspended at a
\* yield, or the response is dropped before the generator was started
StreamExits == {"completed", "error", "disconnect_during", "disconnect_before"}
\* credits a chat completion costs
DeductAmounts == {1, 40}

\* task ids start_stream_processing is called with
StreamTasks == {"chat-1", "chat-2"}

\* coroutines running BackgroundTaskWorker.start on the worker; main.py
\* creates the first, and _poll_lock is what a further call of start meets
Loops == {"loop-1", "loop-2"}
MainLoop == "loop-1"

VARIABLES
    now,            \* wall clock, minutes
    tasks,          \* the tasks table: task id -> row
    messages,       \* the messages table, in insertion order
    ledger,         \* calls of deduct_user_credits, in order
    termCount,      \* history: status changes into a terminal status, per task
    ppc,            \* position of the producer coroutine _process_stream
    full_content,   \* StreamState.full_content, a sequence of chunk texts
    total_credits,  \* local of _process_stream
    completed_normally, \* local of _process_stream
    streamPos,      \* chunks the provider stream has delivered
    exitPath,       \* history: how the producer coroutine ended
    finalOps,       \* history: what the producer did from the end of the stream on
    active,         \* ChatTask in ChatStreamManager._active_streams
    buffer,         \* StreamState.buffer
    subscribers,    \* keys of StreamState.subscribers
    queue,          \* connection id -> everything put into its queue
    joinK,          \* history: last_received_index a connection subscribed with
    pollPc,         \* position of the BackgroundTaskWorker loop
    toQuery,        \* tasks of the current pass not yet queried
    swept,          \* history: tasks the last sweep found overdue
    polled,         \* history: task -> queries made for it in the current pass, -1 if not loaded
    loopPc,         \* coroutine of BackgroundTaskWorker.start -> where it is
    skipped,        \* history: coroutines whose latest round was skipped
    tbuf,           \* one TaskBuffer
    tnow,           \* time.time() seen by the TaskBuffer, seconds
    tlog,           \* history: indices TaskBuffer.add_message returned
    conn_index,     \* WebSocketManager._conn_index: conn id -> Connection
    connections,    \* WebSocketManager._connections: user -> conn ids, in dict order
    task_subscribers, \* WebSocketManager._task_subscribers: task -> conn ids
    connections_keys, \* the users that are keys of _connections
    task_subscribers_keys, \* the tasks that are keys of _task_subscribers
    task_buffers,   \* WebSocketManager._task_buffers: task -> TaskBuffer
    nextConn,       \* number of the next connection id
    handler,        \* conn id -> sends its _handle_message coroutine still has to make
    fanout,         \* the send_to_task_subscribers call in progress
    sentCount,      \* history: send_to_task_subscribers calls so far
    subCount,       \* history: subscribe messages handled so far
    received,       \* history: conn id, task -> last subscribe and events sent to it
    closed,         \* history: conn ids disconnect was called with
    sendFailed,     \* history: conn ids a send to which raised
    active_streams, \* ChatStreamManager._active_streams: task id -> producer, 0 for none
    producers,      \* the _process_stream coroutines created so far, in order
    snapshot,       \* conn id -> accumulated content subscribe returned to it
    resume,         \* one request of resume_chat_stream and what it has yielded
    cleanupWake,    \* time at which the sleep of _periodic_cleanup ends
    users_credits,  \* users.credits of the user
    credit_transactions, \* the credit_transactions table: id -> row
    credits_history, \* the credits_history table, in insertion order
    calls,          \* the CreditService calls made so far: locals and position
    refund_rpcs,    \* history: transaction id -> refund_credits RPCs made for it
    counters,       \* the Redis counters of one user: key -> value
    requests        \* the send_message_stream requests made so far: position and history

vars == <<now, tasks, messages, ledger, termCount, ppc, full_content,
          total_credits, completed_normally, streamPos, exitPath, finalOps, active,
          buffer, subscribers, queue, joinK, pollPc, toQuery, swept, polled, loopPc, skipped,
          tbuf, tnow, tlog,
          conn_index, connections, task_subscribers, connections_keys,
          task_subscribers_keys, task_buffers, nextConn,
          handler, fanout, sentCount, subCount, received, closed, sendFailed,
          active_streams, producers, snapshot, resume, cleanupWake,
          users_credits, credit_transactions, credits_history, calls, refund_rpcs,
          counters, requests>>

dbVars == <<tasks, messages, ledger, termCount>>
producerVars == <<ppc, full_content, total_credits, completed_normally,
                  streamPos, exitPath, finalOps>>
streamVars == <<active, buffer, subscribers, queue, joinK>>
pollerVars == <<pollPc, toQuery, swept, polled, loopPc, skipped>>
bufVars == <<tbuf, tnow, tlog>>
wsPoolVars == <<conn_index, connections, task_subscribers, connections_keys,
                task_subscribers_keys, nextConn>>
wsSendVars == <<task_buffers, handler, fanout, sentCount, received>>
wsHistVars == <<closed, sendFailed, subCount>>
wsVars == <<wsPoolVars, wsSendVars, wsHistVars>>
regVars == <<active_streams, producers>>
sseVars == <<snapshot, resume>>
sweepVars == <<cleanupWake>>
creditVars == <<users_credits, credit_transactions, credits_history, calls, refund_rpcs>>
limitVars == <<counters, requests>>
extVars == <<regVars, sseVars, sweepVars, creditVars, limitVars>>

(***************************************************************************)
(* Helpers.                                                                *)
(***************************************************************************)
Min(a, b) == IF a < b THEN a ELSE b
Max(a, b) == IF a > b THEN a ELSE b

\* a row of the tasks table as base_generation_service._save_task_to_db
\* inserts it
NewTask(type, conv) ==
    [type |-> type, status |-> "pending", conversation_id |-> conv,
     started_at |-> 0, completed_at |-> -1, last_polled_at |-> -1,
     accumulated_content |-> <<>>, error_message |-> "none",
     result |-> "none", total_credits |-> 0, credits_used |-> 0]

\* db.table("tasks").update(fields).eq(key, t).execute(): the row is
\* overwritten whatever its current status is
TermCountAfter(old, new, n) ==
    IF new \in Terminal /\ old # new THEN Min(n + 1, 3) ELSE n

\* no request of resume_chat_stream has been made
NoResume ==
    [pc |-> "idle", status |-> "none", error_message |-> "none", out |-> <<>>,
     accumulated_content |-> <<>>, last_content_length |-> 0, poll_count |-> 0]

\* the stream terminator put into every queue when the producer exits
Sentinel == [type |-> "end", text |-> "", idx |-> -1, credits |-> 0]

Event(type, text, credits) ==
    [type |-> type, text |-> text, idx |-> -1, credits |-> credits]

(***************************************************************************)
(* ChatStreamManager._broadcast                                            *)
(***************************************************************************)
\* the message as it is serialised: the event with "_index" = len(buffer)
Stamp(buf, data) == [data EXCEPT !.idx = Len(buf)]

\* state.buffer after one event: append, then drop the head when the list
\* is longer than MAX_BUFFER_SIZE
BufferAfter(buf, data) ==
    LET b == Append(buf, Stamp(buf, data))
    IN  IF Len(b) > MAX_BUFFER_SIZE THEN Tail(b) ELSE b

\* queue.put_nowait(msg) for every subscriber; the queues are unbounded
\* (asyncio.Queue()), so no put fails and no subscriber is dropped
QueueAfter(q, subs, msg) ==
    [c \in AllConns |-> IF c \in subs THEN Append(q[c], msg) ELSE q[c]]

\* one event, then optionally the terminator (None is not buffered)
Broadcast(data, last) ==
    /\ buffer' = BufferAfter(buffer, data)
    /\ queue' = IF last
                THEN QueueAfter(QueueAfter(queue, subscribers, Stamp(buffer, data)),
                                subscribers, Sentinel)
                ELSE QueueAfter(queue, subscribers, Stamp(buffer, data))

BroadcastEnd ==
    /\ buffer' = buffer
    /\ queue' = QueueAfter(queue, subscribers, Sentinel)

(***************************************************************************)
(* The tasks table.                                                        *)
(***************************************************************************)
\* update(...).eq(key, t).execute(): no condition on the current status
DbUpdate(t, row) ==
    /\ tasks' = [tasks EXCEPT ![t] = row]
    /\ termCount' = [termCount EXCEPT
                       ![t] = TermCountAfter(tasks[t].status, row.status, @)]

(***************************************************************************)
(* ChatStreamManager.start_stream_processing / _process_stream             *)
(***************************************************************************)
\* the registry entry with the first subscriber; the coroutine is scheduled
\* and has not run yet
StartStreamProcessing ==
    /\ ChatTask \in DOMAIN tasks
    /\ ppc = "none"
    /\ ppc' = "start"
    /\ active' = TRUE
    /\ subscribers' = {FirstConn}
    /\ UNCHANGED <<now, dbVars, full_content, total_credits, completed_normally,
                   streamPos, exitPath, finalOps, buffer, queue, joinK,
                   pollerVars, bufVars, wsVars, extVars>>

\* first run of the coroutine up to the first await of the provider stream
P_Start ==
    /\ ppc = "start"
    /\ DbUpdate(ChatTask, [tasks[ChatTask] EXCEPT !.status = "running"])
    /\ Broadcast(Event("start", "", 0), FALSE)
    /\ ppc' = "stream"
    /\ UNCHANGED <<now, messages, ledger, full_content, total_credits,
                   completed_normally, streamPos, exitPath, finalOps, active,
                   subscribers, joinK, pollerVars, bufVars, wsVars, extVars>>

\* one chunk of the stream: content (or none), usage (or none); flush says
\* whether DB_UPDATE_INTERVAL has passed since the last write
P_Chunk(hasContent, usage, flush) ==
    /\ ppc = "stream"
    /\ streamPos < MaxChunks
    /\ streamPos' = streamPos + 1
    /\ IF hasContent
       THEN LET text == ChunkText(Len(full_content) + 1)
                fc == Append(full_content, text)
            IN  /\ full_content' = fc
                /\ Broadcast(Event("content", text, 0), FALSE)
                /\ IF flush
                   THEN DbUpdate(ChatTask, [tasks[ChatTask] EXCEPT
                                              !.accumulated_content = fc])
                   ELSE UNCHANGED <<tasks, termCount>>
       ELSE /\ flush = FALSE
            /\ UNCHANGED <<full_content, buffer, queue, tasks, termCount>>
    /\ total_credits' = IF usage # -1 THEN usage ELSE total_credits
    /\ UNCHANGED <<now, messages, ledger, completed_normally, ppc, exitPath,
                   finalOps, active, subscribers, joinK, pollerVars, bufVars, wsVars,
                   extVars>>

\* fallback estimate when no usage arrived: 1 token per 3 characters, at
\* least 10 tokens, 1.8 credits per 1000 tokens, plus 1
FallbackCredits(len) == ((Max(len \div 3, 10) * 18) \div 10000) + 1

BilledCredits(credits, len) ==
    IF credits = 0 /\ len > 0 THEN FallbackCredits(len) ELSE credits

\* variant: the completion leaves the credit deduction out
P_StreamEndContentUnbilled ==
    /\ ppc = "stream"
    /\ full_content # <<>>
    /\ LET credits == BilledCredits(total_credits, Len(full_content))
       IN  /\ total_credits' = credits
           /\ messages' = Append(messages, [task |-> ChatTask, kind |-> "assistant",
                                            credits |-> credits])
           /\ ledger' = ledger
           /\ DbUpdate(ChatTask, [tasks[ChatTask] EXCEPT
                                    !.status = "completed",
                                    !.accumulated_content = full_content,
                                    !.total_credits = credits,
                                    !.completed_at = now])
           /\ Broadcast(Event("done", "message", credits), TRUE)
    /\ completed_normally' = TRUE
    /\ ppc' = "exited"
    /\ exitPath' = "completed"
    /\ finalOps' = <<"create_message", "update_completed", "broadcast_done",
                     "broadcast_end">>
    /\ UNCHANGED <<now, full_content, streamPos, active, subscribers, joinK,
                   pollerVars, bufVars, wsVars, extVars>>

\* the stream ends with output: message, deduction, status, done event, and
\* the finally block (nothing to repair) with the terminator
P_StreamEndContent ==
    /\ ppc = "stream"
    /\ full_content # <<>>
    /\ LET credits == BilledCredits(total_credits, Len(full_content))
       IN  /\ total_credits' = credits
           /\ messages' = Append(messages, [task |-> ChatTask, kind |-> "assistant",
                                            credits |-> credits])
           /\ ledger' = Append(ledger, [task |-> ChatTask, amount |-> credits])
           /\ DbUpdate(ChatTask, [tasks[ChatTask] EXCEPT
                                    !.status = "completed",
                                    !.accumulated_content = full_content,
                                    !.total_credits = credits,
                                    !.completed_at = now])
           /\ Broadcast(Event("done", "message", credits), TRUE)
    /\ completed_normally' = TRUE
    /\ ppc' = "exited"
    /\ exitPath' = "completed"
    /\ finalOps' = <<"create_message", "deduct_user_credits",
                     "update_completed", "broadcast_done", "broadcast_end">>
    /\ UNCHANGED <<now, full_content, streamPos, active, subscribers, joinK,
                   pollerVars, bufVars, wsVars, extVars>>

\* the stream ends without output
P_StreamEndEmpty ==
    /\ ppc = "stream"
    /\ full_content = <<>>
    /\ DbUpdate(ChatTask, [tasks[ChatTask] EXCEPT
                             !.status = "completed", !.completed_at = now])
    /\ Broadcast(Event("done", "", 0), TRUE)
    /\ completed_normally' = TRUE
    /\ ppc' = "exited"
    /\ exitPath' = "completed"
    /\ finalOps' = <<"update_completed", "broadcast_done", "broadcast_end">>
    /\ UNCHANGED <<now, messages, ledger, full_content, total_credits, streamPos,
                   active, subscribers, joinK, pollerVars, bufVars, wsVars,
                   extVars>>

\* the finally block after an exit that is not a normal completion: the row
\* is read back and forced to failed when output exists and the row is still
\* pending or running
FinalSync(row) ==
    IF full_content # <<>> /\ row.status \in NonTerminal
    THEN [row EXCEPT !.accumulated_content = full_content,
                     !.status = "failed",
                     !.error_message = "interrupted",
                     !.completed_at = now]
    ELSE row

\* variant: the update of the except branch leaves accumulated_content out
P_StreamErrorNoTranscript ==
    /\ ppc = "stream"
    /\ messages' = Append(messages, [task |-> ChatTask, kind |-> "error",
                                     credits |-> 0])
    /\ DbUpdate(ChatTask, FinalSync([tasks[ChatTask] EXCEPT
                             !.status = "failed",
                             !.error_message = "stream_error",
                             !.completed_at = now]))
    /\ Broadcast(Event("error", "", 0), TRUE)
    /\ ppc' = "exited"
    /\ exitPath' = "error"
    /\ finalOps' = <<"create_error_message", "update_failed",
                     "broadcast_error", "broadcast_end">>
    /\ UNCHANGED <<now, ledger, full_content, total_credits, completed_normally,
                   streamPos, active, subscribers, joinK, pollerVars, bufVars, wsVars,
                   extVars>>

\* the stream raises: error message, status failed, error event, finally
P_StreamError ==
    /\ ppc = "stream"
    /\ messages' = Append(messages, [task |-> ChatTask, kind |-> "error",
                                     credits |-> 0])
    /\ DbUpdate(ChatTask, FinalSync([tasks[ChatTask] EXCEPT
                             !.status = "failed",
                             !.error_message = "stream_error",
                             !.accumulated_content = full_content,
                             !.completed_at = now]))
    /\ Broadcast(Event("error", "", 0), TRUE)
    /\ ppc' = "exited"
    /\ exitPath' = "error"
    /\ finalOps' = <<"create_error_message", "update_failed",
                     "broadcast_error", "broadcast_end">>
    /\ UNCHANGED <<now, ledger, full_content, total_credits, completed_normally,
                   streamPos, active, subscribers, joinK, pollerVars, bufVars, wsVars,
                   extVars>>

\* the coroutine is cancelled while it waits for the next chunk:
\* CancelledError is not an Exception, only the finally block runs
P_Cancel ==
    /\ ppc = "stream"
    /\ DbUpdate(ChatTask, FinalSync(tasks[ChatTask]))
    /\ BroadcastEnd
    /\ ppc' = "exited"
    /\ exitPath' = "cancelled"
    /\ finalOps' = IF FinalSync(tasks[ChatTask]) # tasks[ChatTask]
                   THEN <<"update_failed", "broadcast_end">>
                   ELSE <<"broadcast_end">>
    /\ UNCHANGED <<now, messages, ledger, full_content, total_credits,
                   completed_normally, streamPos, active, subscribers, joinK,
                   pollerVars, bufVars, wsVars, extVars>>

\* the coroutine is cancelled before its first step: its body never runs
P_CancelUnstarted ==
    /\ ppc = "start"
    /\ ppc' = "exited"
    /\ exitPath' = "unstarted"
    /\ UNCHANGED <<now, dbVars, full_content, total_credits, completed_normally,
                   streamPos, finalOps, streamVars, pollerVars, bufVars, wsVars,
                   extVars>>

\* done callback of the asyncio task: the registry entry is removed
Cleanup ==
    /\ ppc = "exited"
    /\ active
    /\ active' = FALSE
    /\ UNCHANGED <<now, dbVars, producerVars, buffer, subscribers, queue, joinK,
                   pollerVars, bufVars, wsVars, extVars>>

(***************************************************************************)
(* ChatStreamManager.subscribe / unsubscribe                               *)
(***************************************************************************)
\* number of events the producer has broadcast so far: start, one per
\* content chunk, and done or error
EmittedCount ==
    (IF ppc \in {"none", "start"} \/ exitPath = "unstarted" THEN 0 ELSE 1)
    + Len(full_content)
    + (IF exitPath \in {"completed", "error"} THEN 1 ELSE 0)

\* variant: the slice starts at last_received_index itself
ReplayFromInclusive(buf, k) ==
    LET start_index == Max(0, k)
    IN  IF start_index < Len(buf)
        THEN SubSeq(buf, start_index + 1, Len(buf))
        ELSE <<>>

\* the buffered messages put into a new queue: the list slice
\* buffer[max(0, last_received_index + 1):]
ReplayFrom(buf, k) ==
    LET start_index == Max(0, k + 1)
    IN  IF start_index < Len(buf)
        THEN SubSeq(buf, start_index + 1, Len(buf))
        ELSE <<>>

\* a new connection (fresh uuid) subscribes to the live stream; without a
\* registry entry subscribe returns no queue and registers nothing.  The
\* client presents -1 or the index of an event it was sent before.  The
\* second element of the returned tuple is state.full_content.
Subscribe(c, k) ==
    /\ c \in LateConns
    /\ joinK[c] = -2
    /\ k < EmittedCount
    /\ active
    /\ subscribers' = subscribers \cup {c}
    /\ queue' = [queue EXCEPT ![c] = ReplayFrom(buffer, k)]
    /\ joinK' = [joinK EXCEPT ![c] = k]
    /\ snapshot' = [snapshot EXCEPT ![c] = full_content]
    /\ UNCHANGED <<now, dbVars, producerVars, active, buffer, pollerVars, bufVars,
                   wsVars, regVars, resume, sweepVars, creditVars, limitVars>>

\* variant: the producer is stopped when its last subscriber leaves
UnsubscribeStopsProducer(c) ==
    /\ active
    /\ c \in subscribers
    /\ subscribers' = subscribers \ {c}
    /\ ppc' = IF subscribers = {c} THEN "exited" ELSE ppc
    /\ UNCHANGED <<now, dbVars, full_content, total_credits, completed_normally,
                   streamPos, exitPath, finalOps, active, buffer, queue, joinK,
                   pollerVars, bufVars, wsVars, extVars>>

\* unsubscribe: the queue is taken out of the registry entry of the stream
Unsubscribe(c) ==
    /\ active
    /\ c \in subscribers
    /\ subscribers' = subscribers \ {c}
    /\ UNCHANGED <<now, dbVars, producerVars, active, buffer, queue, joinK,
                   pollerVars, bufVars, wsVars, extVars>>

(***************************************************************************)
(* api/routes/task.py: resume_chat_stream                                  *)
(***************************************************************************)
\* the text of the stream as generate_stream hands it to a subscriber: the
\* accumulated event, sent when the content is not empty and
\* last_received_index < 0, then the content events taken from the queue
DeliveredText(c) ==
    LET contents == SelectSeq(queue[c], LAMBDA m : m.type = "content")
    IN  (IF joinK[c] < 0 THEN snapshot[c] ELSE <<>>)
        \o [i \in 1..Len(contents) |-> contents[i].text]

\* the rows of the messages table with the id allocated for the task
MessagesOf(t) == SelectSeq(messages, LAMBDA m : m.task = t)

\* the route body, lines 81-91: the row of the task is read once, for the
\* owner of a chat task; the generator runs after the route has returned
ResumeRequest ==
    /\ resume.pc = "idle"
    /\ ChatTask \in DOMAIN tasks
    /\ resume' = [NoResume EXCEPT
                    !.pc = "opened",
                    !.status = tasks[ChatTask].status,
                    !.error_message = tasks[ChatTask].error_message,
                    !.accumulated_content = tasks[ChatTask].accumulated_content]
    /\ UNCHANGED <<now, dbVars, producerVars, streamVars, pollerVars, bufVars,
                   wsVars, regVars, snapshot, sweepVars, creditVars, limitVars>>

\* what generate_stream yields for a row read as completed or failed.  The
\* message is looked up by the id in the row when the generator runs; with
\* no such row single() either returns no data or raises, which ends the
\* response without the terminator.
TerminalResponse(status, error_message, found, raises) ==
    IF status = "failed"
    THEN <<[type |-> "error", data |-> error_message], [type |-> "[DONE]", data |-> "none"]>>
    ELSE IF found # <<>>
    THEN <<[type |-> "done", data |-> Head(found).kind], [type |-> "[DONE]", data |-> "none"]>>
    ELSE IF raises THEN <<>>
    ELSE <<[type |-> "[DONE]", data |-> "none"]>>

\* generate_stream, lines 93-121: the row was read as terminal
ResumeTerminal(raises) ==
    /\ resume.pc = "opened"
    /\ resume.status \in Terminal
    /\ raises => (resume.status = "completed" /\ MessagesOf(ChatTask) = <<>>)
    /\ resume' = [resume EXCEPT
                    !.pc = "closed",
                    !.out = TerminalResponse(resume.status, resume.error_message,
                                             MessagesOf(ChatTask), raises)]
    /\ UNCHANGED <<now, dbVars, producerVars, streamVars, pollerVars, bufVars,
                   wsVars, regVars, snapshot, sweepVars, creditVars, limitVars>>

\* generate_stream, line 125: the row was read as pending or running, the
\* response goes on with subscribe or with polling the row
ResumeLive ==
    /\ resume.pc = "opened"
    /\ resume.status \in NonTerminal
    /\ resume' = [resume EXCEPT !.pc = "live"]
    /\ UNCHANGED <<now, dbVars, producerVars, streamVars, pollerVars, bufVars,
                   wsVars, regVars, snapshot, sweepVars, creditVars, limitVars>>

\* an event of the polling branch; text is the content it carries
PollEvent(type, text) == [type |-> type, data |-> "none", text |-> text]

\* generate_stream, lines 145-154: subscribe returned no queue; the content
\* of the row read by the route is sent, when there is any
ResumeFallback ==
    /\ resume.pc = "live"
    /\ ~active
    /\ resume' = [resume EXCEPT
                    !.pc = "poll",
                    !.last_content_length = Len(resume.accumulated_content),
                    !.out = IF resume.accumulated_content # <<>>
                            THEN <<PollEvent("accumulated", resume.accumulated_content)>>
                            ELSE <<>>]
    /\ UNCHANGED <<now, dbVars, producerVars, streamVars, pollerVars, bufVars,
                   wsVars, regVars, snapshot, sweepVars, creditVars, limitVars>>

\* variant: every poll sends the whole content of the row
NewContentWhole(current_content, last_content_length) == current_content

\* current_content[last_content_length:]
NewContent(current_content, last_content_length) ==
    SubSeq(current_content, last_content_length + 1, Len(current_content))

\* what one round of the polling loop yields for the row it read, lines
\* 168-188
PollYield(row, last_content_length) ==
    (IF Len(row.accumulated_content) > last_content_length
     THEN <<PollEvent("content", NewContent(row.accumulated_content, last_content_length))>>
     ELSE <<>>)
    \o (IF row.status = "completed" /\ MessagesOf(ChatTask) # <<>>
        THEN <<PollEvent("done", <<>>)>>
        ELSE IF row.status = "failed" THEN <<PollEvent("error", <<>>)>>
        ELSE <<>>)

\* one round of the loop, lines 156-188, and, when the loop ends with it,
\* the terminator of line 190
ResumePoll ==
    /\ resume.pc = "poll"
    /\ LET row == tasks[ChatTask]
           ends == row.status \in Terminal \/ resume.poll_count + 1 = max_polls
       IN  resume' = [resume EXCEPT
                        !.poll_count = @ + 1,
                        !.accumulated_content = row.accumulated_content,
                        !.last_content_length =
                            Max(@, Len(row.accumulated_content)),
                        !.out = @ \o PollYield(row, resume.last_content_length)
                                  \o (IF ends THEN <<PollEvent("[DONE]", <<>>)>>
                                      ELSE <<>>),
                        !.pc = IF ends THEN "ended" ELSE "poll"]
    /\ UNCHANGED <<now, dbVars, producerVars, streamVars, pollerVars, bufVars,
                   wsVars, regVars, snapshot, sweepVars, creditVars, limitVars>>

(***************************************************************************)
(* ChatStreamManager._active_streams under repeated calls of               *)
(* start_stream_processing.  A producer is the asyncio task of one call;   *)
(* what it broadcasts is left out here.                                    *)
(***************************************************************************)
\* start_stream_processing(task_id): a new coroutine is created and its
\* StreamState is stored under task_id, whatever was stored there; nothing
\* in the function suspends, the lock is never held over an await
RegisterStream(t) ==
    /\ Len(producers) < MaxStarts
    /\ producers' = Append(producers, [task_id |-> t, pc |-> "running"])
    /\ active_streams' = [active_streams EXCEPT ![t] = Len(producers) + 1]
    /\ UNCHANGED <<now, dbVars, producerVars, streamVars, pollerVars, bufVars,
                   wsVars, sseVars, sweepVars, creditVars, limitVars>>

\* the coroutine of producer p returns or raises: the asyncio task is done
\* and its done callback is scheduled
ProducerExits(p) ==
    /\ p \in 1..Len(producers)
    /\ producers[p].pc = "running"
    /\ producers' = [producers EXCEPT ![p].pc = "exited"]
    /\ UNCHANGED <<now, dbVars, producerVars, streamVars, pollerVars, bufVars,
                   wsVars, active_streams, sseVars, sweepVars, creditVars, limitVars>>

\* cleanup, the done callback of producer p: _active_streams.pop(task_id)
DoneCallback(p) ==
    /\ p \in 1..Len(producers)
    /\ producers[p].pc = "exited"
    /\ producers' = [producers EXCEPT ![p].pc = "removed"]
    /\ active_streams' = [active_streams EXCEPT ![producers[p].task_id] = 0]
    /\ UNCHANGED <<now, dbVars, producerVars, streamVars, pollerVars, bufVars,
                   wsVars, sseVars, sweepVars, creditVars, limitVars>>

(***************************************************************************)
(* BackgroundTaskWorker                                                    *)
(***************************************************************************)
\* variant: the round starts its pass without looking at _poll_lock
PollLoadOverlapping(w) ==
    /\ loopPc[w] = "sleep"
    /\ \E t \in DOMAIN tasks : tasks[t].status \in NonTerminal
    /\ toQuery' = {t \in DOMAIN tasks : tasks[t].status \in NonTerminal}
    /\ pollPc' = "polling"
    /\ loopPc' = [loopPc EXCEPT ![w] = "pass"]
    /\ skipped' = skipped \ {w}
    /\ polled' = [t \in AllTasks |->
                    IF t \in DOMAIN tasks /\ tasks[t].status \in NonTerminal
                    THEN 0 ELSE -1]
    /\ UNCHANGED <<now, dbVars, producerVars, streamVars, swept, bufVars, wsVars,
                   extVars>>

\* a round of start, lines 36-46, that finds _poll_lock free: the coroutine
\* w wakes from its sleep, takes the lock and enters poll_pending_tasks,
\* lines 65-72; the pass works on the rows that were pending or running when
\* it started.  pollPc = "polling" is _poll_lock.locked().
PollLoad(w) ==
    /\ loopPc[w] = "sleep"
    /\ pollPc = "idle"
    /\ \E t \in DOMAIN tasks : tasks[t].status \in NonTerminal
    /\ toQuery' = {t \in DOMAIN tasks : tasks[t].status \in NonTerminal}
    /\ pollPc' = "polling"
    /\ loopPc' = [loopPc EXCEPT ![w] = "pass"]
    /\ skipped' = skipped \ {w}
    /\ polled' = [t \in AllTasks |->
                    IF t \in DOMAIN tasks /\ tasks[t].status \in NonTerminal
                    THEN 0 ELSE -1]
    /\ UNCHANGED <<now, dbVars, producerVars, streamVars, swept, bufVars, wsVars,
                   extVars>>

\* a round of start, lines 39-42, that finds _poll_lock held: the coroutine
\* logs, sleeps again and starts its next round from the top
SkipRound(w) ==
    /\ loopPc[w] = "sleep"
    /\ pollPc = "polling"
    /\ skipped' = skipped \cup {w}
    /\ UNCHANGED <<now, dbVars, producerVars, streamVars, pollPc, toQuery, swept,
                   polled, loopPc, bufVars, wsVars, extVars>>

\* status_mapping of query_kie_and_update
StatusMapping(kie_status) ==
    CASE kie_status = "pending" -> "pending"
      [] kie_status = "processing" -> "running"
      [] kie_status = "success" -> "completed"
      [] kie_status = "failed" -> "failed"
      [] OTHER -> "pending"

\* variant: a query that raises fails the task
PolledRowFailing(row, ans) ==
    IF ans = "raise"
    THEN [row EXCEPT !.status = "failed", !.last_polled_at = now,
                     !.error_message = "provider_failed", !.completed_at = now]
    ELSE LET db_status == StatusMapping(ans)
         IN  IF db_status = "completed"
             THEN [row EXCEPT !.status = db_status, !.last_polled_at = now,
                              !.result = "set", !.completed_at = now,
                              !.credits_used = 0]
             ELSE IF db_status = "failed"
             THEN [row EXCEPT !.status = db_status, !.last_polled_at = now,
                              !.error_message = "provider_failed",
                              !.completed_at = now]
             ELSE [row EXCEPT !.status = db_status, !.last_polled_at = now]

\* the row query_kie_and_update writes for a provider answer
PolledRow(row, ans) ==
    IF ans = "raise"
    THEN [row EXCEPT !.last_polled_at = now]
    ELSE LET db_status == StatusMapping(ans)
         IN  IF db_status = "completed"
             THEN [row EXCEPT !.status = db_status, !.last_polled_at = now,
                              !.result = "set", !.completed_at = now,
                              !.credits_used = 0]
             ELSE IF db_status = "failed"
             THEN [row EXCEPT !.status = db_status, !.last_polled_at = now,
                              !.error_message = "provider_failed",
                              !.completed_at = now]
             ELSE [row EXCEPT !.status = db_status, !.last_polled_at = now]

\* save_completed_message: a message is inserted when the task has a
\* conversation that belongs to the task's user
SavedMessages(t, ans) ==
    IF ans = "success" /\ tasks[t].conversation_id = "owned"
    THEN Append(messages, [task |-> t, kind |-> "generated", credits |-> 0])
    ELSE messages

\* query_kie_and_update for one task of the pass, from the provider's answer
\* to the write.  Every loaded row is queried, chat rows through the video
\* adapter; the provider has no job for a chat task and the query fails.
PollQuery(t, ans) ==
    /\ pollPc = "polling"
    /\ t \in toQuery
    /\ tasks[t].type = "chat" => ans = "raise"
    /\ toQuery' = toQuery \ {t}
    /\ messages' = SavedMessages(t, ans)
    /\ DbUpdate(t, PolledRow(tasks[t], ans))
    /\ polled' = [polled EXCEPT ![t] = Min(@ + 1, 2)]
    /\ UNCHANGED <<now, ledger, producerVars, streamVars, pollPc, swept, loopPc,
                   skipped, bufVars, wsVars, extVars>>

\* variant: the exception leaves gather and ends the work on the batch
PollQueryFailsAborting(t) ==
    /\ pollPc = "polling"
    /\ t \in toQuery
    /\ tasks[t].type # "chat"
    /\ toQuery' = {}
    /\ polled' = [polled EXCEPT ![t] = Min(@ + 1, 2)]
    /\ UNCHANGED <<now, dbVars, producerVars, streamVars, pollPc, swept, loopPc,
                   skipped, bufVars, wsVars, extVars>>

\* process_task_with_jitter, lines 86-93, when query_kie_and_update raises
\* after the provider has answered (a write to the database fails): the
\* exception is logged, nothing is written, the other tasks go on
PollQueryFails(t) ==
    /\ pollPc = "polling"
    /\ t \in toQuery
    /\ tasks[t].type # "chat"
    /\ toQuery' = toQuery \ {t}
    /\ polled' = [polled EXCEPT ![t] = Min(@ + 1, 2)]
    /\ UNCHANGED <<now, dbVars, producerVars, streamVars, pollPc, swept, loopPc,
                   skipped, bufVars, wsVars, extVars>>

\* max_duration_minutes of cleanup_stale_tasks
TimeoutMinutes(type) ==
    IF type = "chat" THEN CHAT_TASK_TIMEOUT_MINUTES
    ELSE IF type = "image" THEN IMAGE_TASK_TIMEOUT_MINUTES
    ELSE VIDEO_TASK_TIMEOUT_MINUTES

\* variant: only running tasks are looked at
OverdueRunningOnly(row) ==
    /\ row.status = "running"
    /\ (now - row.started_at) * 60 > TimeoutMinutes(row.type) * 60

Overdue(row) ==
    /\ row.status \in NonTerminal
    /\ (now - row.started_at) * 60 > TimeoutMinutes(row.type) * 60

\* cleanup_stale_tasks, after every query of the pass has returned; the
\* coroutine then leaves the async with block, which releases _poll_lock, and
\* sleeps until its next round
Sweep ==
    /\ pollPc = "polling"
    /\ toQuery = {}
    /\ tasks' = [t \in DOMAIN tasks |->
                   IF Overdue(tasks[t])
                   THEN [tasks[t] EXCEPT !.status = "failed",
                                         !.error_message = "timeout",
                                         !.completed_at = now]
                   ELSE tasks[t]]
    /\ termCount' = [t \in AllTasks |->
                       IF t \in DOMAIN tasks /\ Overdue(tasks[t])
                       THEN TermCountAfter(tasks[t].status, "failed", termCount[t])
                       ELSE termCount[t]]
    /\ swept' = {t \in DOMAIN tasks : Overdue(tasks[t])}
    /\ polled' = [t \in AllTasks |-> -1]
    /\ pollPc' = "idle"
    /\ loopPc' = [w \in Loops |-> IF loopPc[w] = "pass" THEN "sleep" ELSE loopPc[w]]
    /\ UNCHANGED <<now, messages, ledger, producerVars, streamVars, toQuery,
                   skipped, bufVars, wsVars, extVars>>

\* time passes
Tick(d) ==
    /\ now < MaxNow
    /\ now' = now + d
    /\ UNCHANGED <<dbVars, producerVars, streamVars, pollerVars, bufVars, wsVars,
                   extVars>>

(***************************************************************************)
(* api/routes/task.py: mark_task_failed                                    *)
(***************************************************************************)
MarkTaskFailed(t) ==
    /\ t \in DOMAIN tasks
    /\ DbUpdate(t, [tasks[t] EXCEPT !.status = "failed",
                                    !.error_message = "manual",
                                    !.completed_at = now])
    /\ UNCHANGED <<now, messages, ledger, producerVars, streamVars, pollerVars,
                   bufVars, wsVars, extVars>>

(***************************************************************************)
(* websocket_manager.py: TaskBuffer                                        *)
(***************************************************************************)
\* expire_at = -1 stands for None
NewTaskBuffer ==
    [messages |-> <<>>, total_bytes |-> 0, next_index |-> 0, last_update |-> 0,
     expire_at |-> -1]

\* first loop of add_message: pop the head while it is older than the cutoff
RECURSIVE DropOld(_, _)
DropOld(b, cutoff_time) ==
    IF b.messages # <<>> /\ Head(b.messages).ts < cutoff_time
    THEN DropOld([b EXCEPT !.messages = Tail(@),
                           !.total_bytes = @ - Head(b.messages).size],
                 cutoff_time)
    ELSE b

\* variant: one pop instead of a loop
DropBigOnce(b) ==
    IF b.total_bytes > MAX_BUFFER_SIZE_BYTES /\ b.messages # <<>>
    THEN [b EXCEPT !.messages = Tail(@),
                   !.total_bytes = @ - Head(b.messages).size]
    ELSE b

\* second loop of add_message: pop the head while the total is over the limit
RECURSIVE DropBig(_)
DropBig(b) ==
    IF b.total_bytes > MAX_BUFFER_SIZE_BYTES /\ b.messages # <<>>
    THEN DropBig([b EXCEPT !.messages = Tail(@),
                           !.total_bytes = @ - Head(b.messages).size])
    ELSE b

\* TaskBuffer.add_message(msg) at time t, msg_bytes is the encoded length
add_message(b, msg_bytes, t) ==
    LET appended == [b EXCEPT
                       !.messages = Append(@, [ts |-> t, idx |-> b.next_index,
                                               size |-> msg_bytes]),
                       !.total_bytes = @ + msg_bytes,
                       !.last_update = t,
                       !.next_index = @ + 1]
    IN  DropBig(DropOld(appended, t - BUFFER_MAX_AGE_SECONDS))

T_AddMessage(msg_bytes) ==
    /\ tbuf.next_index < MaxAdds
    /\ tbuf' = add_message(tbuf, msg_bytes, tnow)
    /\ tlog' = Append(tlog, [ts |-> tnow, idx |-> tbuf.next_index,
                             size |-> msg_bytes])
    /\ UNCHANGED <<now, dbVars, producerVars, streamVars, pollerVars, tnow, wsVars,
                   extVars>>

T_TimePasses(d) ==
    /\ d > 0
    /\ tnow + d <= MaxBufNow
    /\ tnow' = tnow + d
    /\ UNCHANGED <<now, dbVars, producerVars, streamVars, pollerVars, tbuf, tlog,
                   wsVars, extVars>>

(***************************************************************************)
(* websocket_manager.py: WebSocketManager, and the message handler of      *)
(* api/routes/ws.py.  Every websocket.send_json is a suspension; the code  *)
(* between two of them is one step.  The manager lock is held over a       *)
(* suspension only inside connect (the close of an evicted connection),    *)
(* after every change of _force_disconnect has been made.                  *)
(***************************************************************************)
RemoveFromSeq(seq, c) == SelectSeq(seq, LAMBDA x : x # c)

\* Connection(websocket, user_id, conn_id) created at time t
NewConnection(u, t) ==
    [user_id |-> u, connected_at |-> t, last_heartbeat |-> t,
     subscribed_tasks |-> {}]

\* what a subscriber has been sent for a task since its last subscribe_task
NoneReceived == [last |-> -2, seen |-> <<>>]

\* no send_to_task_subscribers call is between its sends
NoFanout == [task |-> "none", idx |-> -1, pending |-> {}]

\* the conn ids in the pool of a user
PoolOf(u) == {connections[u][i] : i \in 1..Len(connections[u])}

\* the registries as they are
Registries ==
    [ci |-> conn_index, pool |-> connections, users |-> connections_keys,
     subs |-> task_subscribers, tasks |-> task_subscribers_keys]

\* variant: the key stays when its pool or set has become empty
DelIfEmptyKeeping(keys, k, members) == keys

\* if not self._connections[user_id]: del self._connections[user_id], and
\* the same for a subscriber set: the keys of the dict after k has lost a
\* member and members are left under it
DelIfEmpty(keys, k, members) ==
    IF members = {} THEN keys \ {k} ELSE keys

\* variant: the connection stays in the subscriber sets
ManagerAfterDisconnectKeepsSubs(c) ==
    IF c \notin DOMAIN conn_index
    THEN Registries
    ELSE [ci |-> [x \in DOMAIN conn_index \ {c} |-> conn_index[x]],
          pool |-> [connections EXCEPT
                      ![conn_index[c].user_id] = RemoveFromSeq(@, c)],
          users |-> DelIfEmpty(connections_keys, conn_index[c].user_id,
                               PoolOf(conn_index[c].user_id) \ {c}),
          subs |-> task_subscribers,
          tasks |-> task_subscribers_keys]

\* the three registries after the body of disconnect(c), which is also the
\* body of _force_disconnect(c): an unknown id changes nothing
ManagerAfterDisconnect(c) ==
    IF c \notin DOMAIN conn_index
    THEN Registries
    ELSE [ci |-> [x \in DOMAIN conn_index \ {c} |-> conn_index[x]],
          pool |-> [connections EXCEPT
                      ![conn_index[c].user_id] = RemoveFromSeq(@, c)],
          users |-> DelIfEmpty(connections_keys, conn_index[c].user_id,
                               PoolOf(conn_index[c].user_id) \ {c}),
          subs |-> [t \in WsTasks |->
                      IF t \in conn_index[c].subscribed_tasks
                      THEN task_subscribers[t] \ {c}
                      ELSE task_subscribers[t]],
          tasks |-> {t \in task_subscribers_keys :
                       t \in conn_index[c].subscribed_tasks =>
                          t \in DelIfEmpty({t}, t, task_subscribers[t] \ {c})}]

\* variant: the newest connection of the user is closed
NewestConn(u) ==
    LET pool == connections[u]
        i == CHOOSE i \in 1..Len(pool) : \A j \in 1..Len(pool) :
                \/ conn_index[pool[i]].connected_at > conn_index[pool[j]].connected_at
                \/ /\ conn_index[pool[i]].connected_at = conn_index[pool[j]].connected_at
                   /\ i >= j
    IN  pool[i]

\* min(keys, key=connected_at): the first key of the dict with the least
\* connected_at
OldestConn(u) ==
    LET pool == connections[u]
        i == CHOOSE i \in 1..Len(pool) : \A j \in 1..Len(pool) :
                \/ conn_index[pool[i]].connected_at < conn_index[pool[j]].connected_at
                \/ /\ conn_index[pool[i]].connected_at = conn_index[pool[j]].connected_at
                   /\ i <= j
    IN  pool[i]

\* connect(websocket, user_id) with a fresh conn_id
WsConnect(u) ==
    /\ nextConn <= MaxConnects
    /\ LET after == IF Len(connections[u]) >= MAX_CONNECTIONS_PER_USER
                    THEN ManagerAfterDisconnect(OldestConn(u))
                    ELSE Registries
       IN  /\ conn_index' = [x \in DOMAIN after.ci \cup {nextConn} |->
                               IF x = nextConn THEN NewConnection(u, tnow)
                               ELSE after.ci[x]]
           /\ connections' = [after.pool EXCEPT ![u] = Append(@, nextConn)]
           /\ connections_keys' = after.users \cup {u}
           /\ task_subscribers' = after.subs
           /\ task_subscribers_keys' = after.tasks
    /\ nextConn' = nextConn + 1
    /\ UNCHANGED <<now, dbVars, producerVars, streamVars, pollerVars, bufVars,
                   wsSendVars, wsHistVars, extVars>>

\* disconnect(conn_id): the close of the route, or the stale-heartbeat sweep
WsDisconnect(c) ==
    /\ LET after == ManagerAfterDisconnect(c)
       IN  /\ conn_index' = after.ci
           /\ connections' = after.pool
           /\ connections_keys' = after.users
           /\ task_subscribers' = after.subs
           /\ task_subscribers_keys' = after.tasks
    /\ closed' = closed \cup {c}
    /\ UNCHANGED <<now, dbVars, producerVars, streamVars, pollerVars, bufVars,
                   nextConn, wsSendVars, sendFailed, subCount, extVars>>

\* variant: the message one after last_index is skipped
get_messages_after_skipping(b, last_index) ==
    SelectSeq(b.messages, LAMBDA m : m.idx > last_index + 1)

\* TaskBuffer.get_messages_after(last_index)
get_messages_after(b, last_index) ==
    SelectSeq(b.messages, LAMBDA m : m.idx > last_index)

\* TaskBuffer.get_current_index()
get_current_index(b) == IF b.next_index > 0 THEN b.next_index - 1 ELSE -1

\* build_ws_message for an event of a task: a dict; payload and timestamp
\* are left out
EventMessage(t) == [type |-> "chat_chunk", task_id |-> t]

\* the keys a message can have, in the order in which they are inserted
MessageKeys == <<"type", "task_id", "message_index">>

\* json.dumps(message): the pairs of the dict as it is at the call, in
\* insertion order
json_dumps(message) ==
    LET keys == SelectSeq(MessageKeys, LAMBDA k : k \in DOMAIN message)
    IN  [i \in 1..Len(keys) |-> <<keys[i], message[keys[i]]>>]

\* json.loads(msg_json): the dict of the pairs
json_loads(msg_json) ==
    [k \in {msg_json[i][1] : i \in 1..Len(msg_json)} |->
        msg_json[CHOOSE i \in 1..Len(msg_json) : msg_json[i][1] = k][2]]

\* message[key] = value
WithKey(message, key, value) ==
    [k \in DOMAIN message \cup {key} |-> IF k = key THEN value ELSE message[k]]

\* msg_json of send_to_task_subscribers, the string put into the TaskBuffer:
\* the message is serialized before message_index is set on it
BufferedJson(t) == json_dumps(EventMessage(t))

\* the message send_to_task_subscribers sends to the subscribers of the
\* moment, after message["message_index"] = message_index
LiveMessage(t, message_index) ==
    WithKey(EventMessage(t), "message_index", message_index)

\* the sends _handle_message makes after subscribe_task has returned: the
\* confirmation, then the missed messages
ReplaySends(t, last_index) ==
    IF t \in DOMAIN task_buffers
    THEN LET b == task_buffers[t]
             missed == get_messages_after(b, last_index)
         IN  <<[kind |-> "subscribed", task |-> t, idx |-> get_current_index(b)]>>
             \o [i \in 1..Len(missed) |->
                   [kind |-> "event", task |-> t, idx |-> missed[i].idx,
                    msg |-> json_loads(BufferedJson(t))]]
    ELSE <<[kind |-> "subscribed", task |-> t, idx |-> -1]>>

\* _handle_message, type subscribe, up to its first send: subscribe_task
\* registers the subscription and reads the buffer under the lock.  The
\* receive loop of a connection handles one message at a time.  The client
\* presents -1 or the index of a message that exists.
WsSubscribe(c, t, last_index) ==
    /\ subCount < MaxSubscribes
    /\ last_index <= (IF t \in DOMAIN task_buffers
                      THEN get_current_index(task_buffers[t]) ELSE -1)
    /\ subCount' = subCount + 1
    /\ c \in DOMAIN conn_index
    /\ handler[c] = <<>>
    /\ task_subscribers' = [task_subscribers EXCEPT ![t] = @ \cup {c}]
    /\ task_subscribers_keys' = task_subscribers_keys \cup {t}
    /\ conn_index' = [conn_index EXCEPT ![c].subscribed_tasks = @ \cup {t}]
    /\ handler' = [handler EXCEPT ![c] = ReplaySends(t, last_index)]
    /\ received' = [received EXCEPT ![c][t] = [last |-> last_index, seen |-> <<>>]]
    /\ UNCHANGED <<now, dbVars, producerVars, streamVars, pollerVars, bufVars,
                   connections, connections_keys, nextConn, task_buffers, fanout,
                   sentCount,
                   closed, sendFailed, extVars>>

\* _handle_message, type unsubscribe: unsubscribe_task
WsUnsubscribe(c, t) ==
    /\ c \in DOMAIN conn_index
    /\ handler[c] = <<>>
    /\ c \in task_subscribers[t]
    /\ task_subscribers' = [task_subscribers EXCEPT ![t] = @ \ {c}]
    /\ task_subscribers_keys' =
          DelIfEmpty(task_subscribers_keys, t, task_subscribers[t] \ {c})
    /\ conn_index' = [conn_index EXCEPT ![c].subscribed_tasks = @ \ {t}]
    /\ UNCHANGED <<now, dbVars, producerVars, streamVars, pollerVars, bufVars,
                   connections, connections_keys, nextConn, wsSendVars, wsHistVars,
                   extVars>>

\* received after a message of a task has been written to the socket of c
ReceivedAfter(c, msg) ==
    IF msg.kind = "event"
    THEN [received EXCEPT ![c][msg.task].seen = Append(@, msg.idx)]
    ELSE received

\* send_to_connection(c, msg) of the subscribe handler: without a connection
\* it returns at once, and so do the sends that follow it; ok says whether
\* send_json returns or raises
WsHandlerSend(c, ok) ==
    /\ handler[c] # <<>>
    /\ IF c \notin DOMAIN conn_index
       THEN /\ handler' = [handler EXCEPT ![c] = <<>>]
            /\ UNCHANGED <<conn_index, connections, task_subscribers, connections_keys,
                        task_subscribers_keys, received,
                           wsHistVars>>
       ELSE IF ok
       THEN /\ handler' = [handler EXCEPT ![c] = Tail(@)]
            /\ received' = ReceivedAfter(c, Head(handler[c]))
            /\ UNCHANGED <<conn_index, connections, task_subscribers, connections_keys,
                         task_subscribers_keys, wsHistVars>>
       ELSE LET after == ManagerAfterDisconnect(c)
            IN  /\ handler' = [handler EXCEPT ![c] = <<>>]
                /\ conn_index' = after.ci
                /\ connections' = after.pool
                /\ connections_keys' = after.users
                /\ task_subscribers' = after.subs
                /\ task_subscribers_keys' = after.tasks
                /\ closed' = closed \cup {c}
                /\ sendFailed' = sendFailed \cup {c}
                /\ UNCHANGED <<received, subCount>>
    /\ UNCHANGED <<now, dbVars, producerVars, streamVars, pollerVars, bufVars,
                   nextConn, task_buffers, fanout, sentCount, extVars>>

\* send_to_task_subscribers(task_id, message, buffer=True) up to its first
\* send: the message is put into the TaskBuffer under the lock, then the
\* subscriber set is copied; a task has one producer, which waits for the
\* call to return before it makes the next
WsSend(t, msg_bytes) ==
    /\ sentCount < MaxSends
    /\ fanout[t].pending = {}
    /\ LET b == IF t \in DOMAIN task_buffers THEN task_buffers[t] ELSE NewTaskBuffer
       IN  /\ task_buffers' = [x \in DOMAIN task_buffers \cup {t} |->
                                 IF x = t THEN add_message(b, msg_bytes, tnow)
                                 ELSE task_buffers[x]]
           /\ fanout' = [fanout EXCEPT ![t] =
                           IF task_subscribers[t] = {} THEN NoFanout
                           ELSE [task |-> t, idx |-> b.next_index,
                                 msg |-> LiveMessage(t, b.next_index),
                                 pending |-> task_subscribers[t]]]
    /\ sentCount' = sentCount + 1
    /\ UNCHANGED <<now, dbVars, producerVars, streamVars, pollerVars, bufVars,
                   wsPoolVars, handler, received, wsHistVars, extVars>>

\* the fan-out after one more connection has been served
FanoutAfter(t, c) ==
    IF fanout[t].pending = {c} THEN [fanout EXCEPT ![t] = NoFanout]
    ELSE [fanout EXCEPT ![t].pending = @ \ {c}]

\* variant: a failed send ends the fan-out
WsFanoutSendAborting(t, c, ok) ==
    /\ c \in fanout[t].pending
    /\ IF c \notin DOMAIN conn_index
       THEN /\ fanout' = FanoutAfter(t, c)
            /\ UNCHANGED <<conn_index, connections, task_subscribers, connections_keys,
                        task_subscribers_keys, received,
                           wsHistVars>>
       ELSE IF ok
       THEN /\ fanout' = FanoutAfter(t, c)
            /\ received' = ReceivedAfter(c, [kind |-> "event", task |-> t,
                                             idx |-> fanout[t].idx])
            /\ UNCHANGED <<conn_index, connections, task_subscribers, connections_keys,
                         task_subscribers_keys, wsHistVars>>
       ELSE LET after == ManagerAfterDisconnect(c)
            IN  /\ fanout' = [fanout EXCEPT ![t] = NoFanout]
                /\ conn_index' = after.ci
                /\ connections' = after.pool
                /\ connections_keys' = after.users
                /\ task_subscribers' = after.subs
                /\ task_subscribers_keys' = after.tasks
                /\ closed' = closed \cup {c}
                /\ sendFailed' = sendFailed \cup {c}
                /\ UNCHANGED <<received, subCount>>
    /\ UNCHANGED <<now, dbVars, producerVars, streamVars, pollerVars, bufVars,
                   nextConn, task_buffers, handler, sentCount, extVars>>

\* one send_to_connection of the loop over the copied subscriber set; a
\* failed send runs disconnect(c) and the loop goes on
WsFanoutSend(t, c, ok) ==
    /\ c \in fanout[t].pending
    /\ fanout' = FanoutAfter(t, c)
    /\ IF c \notin DOMAIN conn_index
       THEN UNCHANGED <<conn_index, connections, task_subscribers, connections_keys,
                        task_subscribers_keys, received,
                        wsHistVars>>
       ELSE IF ok
       THEN /\ received' = ReceivedAfter(c, [kind |-> "event", task |-> t,
                                             idx |-> fanout[t].idx])
            /\ UNCHANGED <<conn_index, connections, task_subscribers, connections_keys,
                         task_subscribers_keys, wsHistVars>>
       ELSE LET after == ManagerAfterDisconnect(c)
            IN  /\ conn_index' = after.ci
                /\ connections' = after.pool
                /\ connections_keys' = after.users
                /\ task_subscribers' = after.subs
                /\ task_subscribers_keys' = after.tasks
                /\ closed' = closed \cup {c}
                /\ sendFailed' = sendFailed \cup {c}
                /\ UNCHANGED <<received, subCount>>
    /\ UNCHANGED <<now, dbVars, producerVars, streamVars, pollerVars, bufVars,
                   nextConn, task_buffers, handler, sentCount, extVars>>

\* clear_task_buffer(task_id): the buffer and the subscriber set are dropped,
\* Connection.subscribed_tasks is left as it is
WsClearTaskBuffer(t) ==
    /\ t \in DOMAIN task_buffers \/ task_subscribers[t] # {}
    /\ task_buffers' = [x \in DOMAIN task_buffers \ {t} |-> task_buffers[x]]
    /\ task_subscribers' = [task_subscribers EXCEPT ![t] = {}]
    /\ task_subscribers_keys' = task_subscribers_keys \ {t}
    /\ UNCHANGED <<now, dbVars, producerVars, streamVars, pollerVars, bufVars,
                   conn_index, connections, connections_keys, nextConn, handler,
                   fanout, sentCount,
                   received, wsHistVars, extVars>>

\* mark_task_completed(task_id, delay_seconds): expire_at of the buffer is
\* set; without a buffer nothing happens
WsMarkTaskCompleted(t, delay_seconds) ==
    /\ t \in DOMAIN task_buffers
    /\ task_buffers' = [task_buffers EXCEPT ![t].expire_at = tnow + delay_seconds]
    /\ UNCHANGED <<now, dbVars, producerVars, streamVars, pollerVars, bufVars,
                   wsPoolVars, handler, fanout, sentCount, received, wsHistVars,
                   extVars>>

\* update_heartbeat(conn_id), called for every message a connection sends
WsUpdateHeartbeat(c) ==
    /\ c \in DOMAIN conn_index
    /\ conn_index' = [conn_index EXCEPT ![c].last_heartbeat = tnow]
    /\ UNCHANGED <<now, dbVars, producerVars, streamVars, pollerVars, bufVars,
                   connections, task_subscribers, connections_keys,
                   task_subscribers_keys, nextConn, wsSendVars, wsHistVars,
                   extVars>>

\* time passes while _periodic_cleanup is in asyncio.sleep
WsCleanupSleep(d) ==
    /\ d > 0
    /\ tnow + d <= cleanupWake
    /\ tnow + d <= MaxCleanupNow
    /\ tnow' = tnow + d
    /\ UNCHANGED <<now, dbVars, producerVars, streamVars, pollerVars, tbuf, tlog,
                   wsVars, extVars>>

\* cleanup_stale_connections: the connections whose last heartbeat is older
\* than HEARTBEAT_TIMEOUT
StaleConnections ==
    {c \in DOMAIN conn_index : tnow - conn_index[c].last_heartbeat > HEARTBEAT_TIMEOUT}

\* expired_tasks of _periodic_cleanup: expire_at is set and has passed, or
\* else the buffer has had no message for more than 30 minutes
ExpiredTasks ==
    {t \in DOMAIN task_buffers :
        LET b == task_buffers[t]
        IN  \/ b.expire_at # -1 /\ tnow > b.expire_at
            \/ tnow - b.last_update > 1800}

\* one round of _periodic_cleanup after its sleep: disconnect is called for
\* every stale connection, then the expired buffers and their subscriber
\* sets are deleted, and the loop goes back to sleep
WsPeriodicCleanup ==
    /\ tnow = cleanupWake
    /\ cleanupWake' = tnow + BUFFER_CLEANUP_INTERVAL
    /\ conn_index' = [c \in DOMAIN conn_index \ StaleConnections |-> conn_index[c]]
    /\ connections' = [u \in Users |->
                         SelectSeq(connections[u], LAMBDA c : c \notin StaleConnections)]
    /\ connections_keys' =
          {u \in connections_keys :
             (PoolOf(u) \cap StaleConnections # {}) =>
                u \in DelIfEmpty({u}, u, PoolOf(u) \ StaleConnections)}
    /\ task_subscribers' =
          [t \in WsTasks |->
             IF t \in ExpiredTasks THEN {}
             ELSE task_subscribers[t] \
                    {c \in StaleConnections : t \in conn_index[c].subscribed_tasks}]
    /\ task_subscribers_keys' =
          {t \in task_subscribers_keys \ ExpiredTasks :
             (\E c \in StaleConnections : t \in conn_index[c].subscribed_tasks) =>
                t \in DelIfEmpty({t}, t,
                       task_subscribers[t] \
                         {c \in StaleConnections : t \in conn_index[c].subscribed_tasks})}
    /\ task_buffers' = [t \in DOMAIN task_buffers \ ExpiredTasks |-> task_buffers[t]]
    /\ closed' = closed \cup StaleConnections
    /\ UNCHANGED <<now, dbVars, producerVars, streamVars, pollerVars, bufVars,
                   nextConn, handler, fanout, sentCount, received, sendFailed,
                   subCount, regVars, sseVars, creditVars, limitVars>>

(***************************************************************************)
(* services/credit_service.py: CreditService over an AsyncClient, every    *)
(* statement of which is awaited: one step per statement.  The id of a     *)
(* transaction is the number of the call that locks it.                    *)
(***************************************************************************)
NewCall(op, amount, tx, pc) ==
    [op |-> op, amount |-> amount, tx |-> tx, pc |-> pc, current_credits |-> 0,
     took |-> FALSE, retries |-> 0, exit |-> "none"]

CreditFrame ==
    UNCHANGED <<now, dbVars, producerVars, streamVars, pollerVars, bufVars, wsVars,
                regVars, sseVars, sweepVars, limitVars>>

\* variant: an amount equal to the balance is refused
AfterGetBalanceStrict(current_credits, amount) ==
    IF current_credits <= amount THEN "insufficient" ELSE "update"

\* lock_credits, lines 120-130: InsufficientCreditsError when the balance
\* read is below the amount, the update otherwise
AfterGetBalance(current_credits, amount) ==
    IF current_credits < amount THEN "insufficient" ELSE "update"

\* lock_credits(task_id, user_id, amount), up to the answer of get_balance
LockCredits(amount) ==
    /\ Len(calls) < MaxCalls
    /\ calls' = Append(calls,
                       [NewCall("lock_credits", amount, Len(calls) + 1,
                                AfterGetBalance(users_credits, amount))
                        EXCEPT !.current_credits = users_credits])
    /\ UNCHANGED <<users_credits, credit_transactions, credits_history, refund_rpcs>>
    /\ CreditFrame

\* "async with credit_lock(task_id, user_id, amount)", which calls
\* lock_credits, up to the answer of get_balance
CreditLock(amount) ==
    /\ Len(calls) < MaxCalls
    /\ calls' = Append(calls,
                       [NewCall("credit_lock", amount, Len(calls) + 1,
                                AfterGetBalance(users_credits, amount))
                        EXCEPT !.current_credits = users_credits])
    /\ UNCHANGED <<users_credits, credit_transactions, credits_history, refund_rpcs>>
    /\ CreditFrame

\* lock_credits called again by itself after a conflict, line 142
LockGetBalance(k) ==
    /\ k \in 1..Len(calls)
    /\ calls[k].pc = "read"
    /\ calls' = [calls EXCEPT
                   ![k].current_credits = users_credits,
                   ![k].pc = AfterGetBalance(users_credits, calls[k].amount)]
    /\ UNCHANGED <<users_credits, credit_transactions, credits_history, refund_rpcs>>
    /\ CreditFrame

\* lock_credits, lines 129-142: the update with .eq("credits",
\* current_credits); without a matching row the call starts over
LockUpdate(k) ==
    /\ k \in 1..Len(calls)
    /\ calls[k].pc = "update"
    /\ IF users_credits = calls[k].current_credits
       THEN /\ users_credits' = calls[k].current_credits - calls[k].amount
            /\ calls' = [calls EXCEPT ![k].pc = "insert", ![k].took = TRUE]
       ELSE /\ users_credits' = users_credits
            /\ calls' = [calls EXCEPT ![k].pc = "read", ![k].retries = 1]
    /\ UNCHANGED <<credit_transactions, credits_history, refund_rpcs>>
    /\ CreditFrame

\* lock_credits, lines 144-163: the pending transaction is inserted and its
\* id returned; inside credit_lock the body of the block runs next
LockInsert(k) ==
    /\ k \in 1..Len(calls)
    /\ calls[k].pc = "insert"
    /\ credit_transactions' =
          [x \in DOMAIN credit_transactions \cup {k} |->
             IF x = k THEN [amount |-> calls[k].amount, status |-> "pending"]
             ELSE credit_transactions[x]]
    /\ calls' = [calls EXCEPT
                   ![k].pc = IF calls[k].op = "credit_lock" THEN "body" ELSE "locked"]
    /\ UNCHANGED <<users_credits, credits_history, refund_rpcs>>
    /\ CreditFrame

\* confirm_deduct(transaction_id): the update of the row with that id
Confirmed(table, tx) ==
    [x \in DOMAIN table |->
       IF x = tx THEN [table[x] EXCEPT !.status = "confirmed"] ELSE table[x]]

\* refund_credits, lines 186-199: the row is read; without a row, or with a
\* status other than pending, the call returns
IsPending(tx) ==
    /\ tx \in DOMAIN credit_transactions
    /\ credit_transactions[tx].status = "pending"

AfterSelect(tx) == IF IsPending(tx) THEN "rpc" ELSE "returned"

\* the end of the body of a credit_lock block, lines 244-256: after a
\* normal end confirm_deduct, after an Exception refund_credits and the
\* re-raise; CancelledError is not an Exception and passes through
CtxBodyEnds(k, how) ==
    /\ k \in 1..Len(calls)
    /\ calls[k].pc = "body"
    /\ calls' = [calls EXCEPT
                   ![k].exit = how,
                   ![k].pc = CASE how = "normal" -> "confirmed"
                               [] how = "raises" -> AfterSelect(k)
                               [] OTHER -> "cancelled"]
    /\ credit_transactions' = IF how = "normal"
                              THEN Confirmed(credit_transactions, k)
                              ELSE credit_transactions
    /\ UNCHANGED <<users_credits, credits_history, refund_rpcs>>
    /\ CreditFrame

\* refund_credits(transaction_id), up to the answer of the select
RefundCredits(tx) ==
    /\ Len(calls) < MaxCalls
    /\ calls' = Append(calls,
                       NewCall("refund_credits",
                               IF IsPending(tx) THEN credit_transactions[tx].amount
                               ELSE 0,
                               tx, AfterSelect(tx)))
    /\ UNCHANGED <<users_credits, credit_transactions, credits_history, refund_rpcs>>
    /\ CreditFrame

\* refund_credits, lines 201-208: the RPC adds the amount of the row that
\* was read to the balance
RefundRpc(k) ==
    /\ k \in 1..Len(calls)
    /\ calls[k].pc = "rpc"
    /\ users_credits' = users_credits + calls[k].amount
    /\ refund_rpcs' = [refund_rpcs EXCEPT ![calls[k].tx] = @ + 1]
    /\ calls' = [calls EXCEPT ![k].pc = "mark"]
    /\ UNCHANGED <<credit_transactions, credits_history>>
    /\ CreditFrame

\* refund_credits, lines 210-214: the status of the row becomes refunded
RefundMark(k) ==
    /\ k \in 1..Len(calls)
    /\ calls[k].pc = "mark"
    /\ credit_transactions' =
          [x \in DOMAIN credit_transactions |->
             IF x = calls[k].tx
             THEN [credit_transactions[x] EXCEPT !.status = "refunded"]
             ELSE credit_transactions[x]]
    /\ calls' = [calls EXCEPT ![k].pc = "returned"]
    /\ UNCHANGED <<users_credits, credits_history, refund_rpcs>>
    /\ CreditFrame

(***************************************************************************)
(* services/task_limit_service.py over redis.asyncio, and the route that   *)
(* uses it, api/routes/message.py: one step per awaited Redis command; the *)
(* pipeline is sent as one transaction.  Keys that do not exist read as 0; *)
(* the expiry of the keys is left out.                                     *)
(***************************************************************************)
LimitFrame ==
    UNCHANGED <<now, dbVars, producerVars, streamVars, pollerVars, bufVars, wsVars,
                regVars, sseVars, sweepVars, creditVars>>

\* check_and_acquire, lines 56-80: TaskQueueFullError when the count read is
\* at the limit, the next command otherwise
AfterGet(count, limit, next) == IF count >= limit THEN "rejected" ELSE next

\* check_and_acquire(user_id, conversation_id), up to the answer of the
\* first get
CheckAndAcquire(conv) ==
    /\ Len(requests) < MaxRequests
    /\ requests' = Append(requests,
                          [conversation_id |-> conv,
                           pc |-> AfterGet(counters[GlobalKey], global_limit, "get_conv"),
                           incremented |-> FALSE, decremented |-> 0, exit |-> "none"])
    /\ UNCHANGED counters
    /\ LimitFrame

\* check_and_acquire, lines 68-80: the second get
AcquireGetConv(r) ==
    /\ r \in 1..Len(requests)
    /\ requests[r].pc = "get_conv"
    /\ requests' = [requests EXCEPT
                      ![r].pc = AfterGet(counters[requests[r].conversation_id],
                                         conversation_limit, "incr")]
    /\ UNCHANGED counters
    /\ LimitFrame

\* check_and_acquire, lines 82-95: the pipeline increments both counters and
\* the call returns True
AcquireIncr(r) ==
    /\ r \in 1..Len(requests)
    /\ requests[r].pc = "incr"
    /\ counters' = [k \in LimitKeys |->
                      IF k \in {GlobalKey, requests[r].conversation_id}
                      THEN counters[k] + 1 ELSE counters[k]]
    /\ requests' = [requests EXCEPT ![r].pc = "held", ![r].incremented = TRUE]
    /\ LimitFrame

\* check_and_acquire, lines 98-100: a Redis command raises; the call logs
\* and returns True without having incremented
AcquireDegraded(r) ==
    /\ r \in 1..Len(requests)
    /\ requests[r].pc \in {"get_conv", "incr"}
    /\ requests' = [requests EXCEPT ![r].pc = "held"]
    /\ UNCHANGED counters
    /\ LimitFrame

\* the counters after the pipeline of release, lines 117-120
Released(conv) ==
    [k \in LimitKeys |->
       IF k \in {GlobalKey, conv} THEN counters[k] - 1 ELSE counters[k]]

\* release(user_id, conversation_id), called by the holder of a slot
Release(r) ==
    /\ r \in 1..Len(requests)
    /\ requests[r].pc = "held"
    /\ counters' = Released(requests[r].conversation_id)
    /\ requests' = [requests EXCEPT ![r].pc = "ended", ![r].decremented = @ + 1]
    /\ LimitFrame

\* the response of send_message_stream ends, message.py lines 154-182:
\* release is awaited in the finally block of stream_with_cleanup, which
\* runs when the generator has been started
StreamEnds(r, how) ==
    /\ r \in 1..Len(requests)
    /\ requests[r].pc = "held"
    /\ IF how = "disconnect_before"
       THEN /\ UNCHANGED counters
            /\ requests' = [requests EXCEPT ![r].pc = "ended", ![r].exit = how]
       ELSE /\ counters' = Released(requests[r].conversation_id)
            /\ requests' = [requests EXCEPT ![r].pc = "ended", ![r].exit = how,
                                            ![r].decremented = @ + 1]
    /\ LimitFrame

(***************************************************************************)
(* services/message_utils.py: deduct_user_credits over the synchronous     *)
(* client: the coroutine does not suspend between its statements           *)
(***************************************************************************)
\* variant: the balance written is computed from a balance read before the
\* latest write of another call
DeductUserCreditsStale(amount) ==
    /\ Len(credits_history) < MaxDeducts
    /\ \E current_credits \in {users_credits} \cup {calls[k].current_credits : k \in
                                   {j \in 1..Len(calls) : calls[j].took}} :
          /\ users_credits' = current_credits - amount
          /\ credits_history' = Append(credits_history,
                                       [change_amount |-> -amount,
                                        balance_after |-> current_credits - amount])
    /\ UNCHANGED <<credit_transactions, calls, refund_rpcs>>
    /\ CreditFrame

\* deduct_user_credits(db, user_id, credits, description): select, update
\* and the credits_history row
DeductUserCredits(amount) ==
    /\ Len(credits_history) < MaxDeducts
    /\ LET current_credits == users_credits
           new_balance == current_credits - amount
       IN  /\ users_credits' = new_balance
           /\ credits_history' = Append(credits_history,
                                        [change_amount |-> -amount,
                                         balance_after |-> new_balance])
    /\ UNCHANGED <<credit_transactions, calls, refund_rpcs>>
    /\ CreditFrame

(***************************************************************************)
(* Initial state and specifications.                                       *)
(***************************************************************************)
\* tasks table, producer, stream registry, poller and the single TaskBuffer
InitLifecycle ==
    /\ now = 0
    /\ \/ tasks = [t \in {ChatTask} |-> NewTask("chat", "owned")]
       \/ \E type \in {"image", "video"}, conv \in ConvKinds :
             tasks = [t \in GenTasks |-> IF t = "gen-1" THEN NewTask(type, conv)
                                         ELSE NewTask("video", "owned")]
    /\ messages = <<>>
    /\ ledger = <<>>
    /\ termCount = [t \in AllTasks |-> 0]
    /\ ppc = "none"
    /\ full_content = <<>>
    /\ total_credits = 0
    /\ completed_normally = FALSE
    /\ streamPos = 0
    /\ exitPath = "none"
    /\ finalOps = <<>>
    /\ active = FALSE
    /\ buffer = <<>>
    /\ subscribers = {}
    /\ queue = [c \in AllConns |-> <<>>]
    /\ joinK = [c \in AllConns |-> IF c = FirstConn THEN -1 ELSE -2]
    /\ pollPc = "idle"
    /\ toQuery = {}
    /\ swept = {}
    /\ polled = [t \in AllTasks |-> -1]
    /\ loopPc = [w \in Loops |-> "sleep"]
    /\ skipped = {}
    /\ tbuf = NewTaskBuffer
    /\ tnow = 0
    /\ tlog = <<>>
    /\ active_streams = [t \in StreamTasks |-> 0]
    /\ producers = <<>>
    /\ snapshot = [c \in AllConns |-> <<>>]
    /\ resume = NoResume
    /\ users_credits = SignupCredits
    /\ credit_transactions = [x \in {} |-> [amount |-> 0, status |-> "pending"]]
    /\ credits_history = <<>>
    /\ calls = <<>>
    /\ refund_rpcs = [x \in 1..(MaxCalls + 1) |-> 0]
    /\ counters = [k \in LimitKeys |-> 0]
    /\ requests = <<>>

\* what no WebSocketManager operation has touched yet
InitTraffic ==
    /\ task_subscribers = [t \in WsTasks |-> {}]
    /\ task_subscribers_keys = {}
    /\ task_buffers = [t \in {} |-> NewTaskBuffer]
    /\ handler = [c \in WsConnIds |-> <<>>]
    /\ fanout = [t \in WsTasks |-> NoFanout]
    /\ sentCount = 0
    /\ subCount = 0
    /\ received = [c \in WsConnIds |-> [t \in WsTasks |-> NoneReceived]]
    /\ closed = {}
    /\ sendFailed = {}
    /\ cleanupWake = BUFFER_CLEANUP_INTERVAL

\* WebSocketManager.__init__
InitManager ==
    /\ conn_index = [c \in {} |-> NewConnection("u1", 0)]
    /\ connections = [u \in Users |-> <<>>]
    /\ connections_keys = {}
    /\ nextConn = 1
    /\ InitTraffic

Init == InitLifecycle /\ InitManager

\* connections 1 and 2 of user u1 and connection 3 of user u2 are open
PresetConns == {1, 2, 3}
\* an id that no connection has
UnknownConn == MaxConnects + 1
\* the connection whose socket may fail, and the one whose route closes
FlakyConns == {2}
SendOutcomes(c) == IF c \in FlakyConns THEN BOOLEAN ELSE {TRUE}
ClosingConns == {1}
\* the subscribe messages that arrive: every connection asks for the chat
\* task, connection 1 for the generation task as well
SubscribePairs ==
    {<<1, ChatTask>>, <<1, "gen-1">>, <<2, ChatTask>>, <<3, ChatTask>>}
\* the grace periods mark_task_completed is called with, the default first
DelaySeconds == {300, 3600}
\* the connection that keeps answering pings
HeartbeatConns == {1}
\* parts of the sleep of the cleanup loop after which something else happens
SleepParts == {200, 600}
\* the task that is unsubscribed from and whose buffer is cleared
ClearedTasks == {"gen-1"}

InitWs ==
    /\ InitLifecycle
    /\ DOMAIN tasks = {ChatTask}
    /\ conn_index = [c \in PresetConns |->
                       NewConnection(IF c = 3 THEN "u2" ELSE "u1", 0)]
    /\ connections = [u \in Users |-> IF u = "u1" THEN <<1, 2>> ELSE <<3>>]
    /\ connections_keys = Users
    /\ nextConn = 4
    /\ InitTraffic

Producer ==
    \/ StartStreamProcessing
    \/ P_Start
    \/ \E chunk \in StreamChunks, flush \in BOOLEAN :
          P_Chunk(chunk.hasContent, chunk.usage, flush)
    \/ P_StreamEndContent
    \/ P_StreamEndEmpty
    \/ P_StreamError
    \/ P_Cancel
    \/ P_CancelUnstarted
    \/ Cleanup

\* the polling loop main.py starts
Poller ==
    \/ \E w \in {MainLoop} : PollLoad(w)
    \/ \E t \in AllTasks, ans \in ProviderAnswers : PollQuery(t, ans)
    \/ Sweep

\* task lifecycle: producer, poller, manual failure, time
Next ==
    \/ Producer
    \/ Poller
    \/ \E t \in AllTasks : MarkTaskFailed(t)
    \/ \E d \in ClockSteps : Tick(d)

Spec == Init /\ [][Next]_vars

\* stream broadcast: producer and subscribers
NextStream ==
    \/ Producer
    \/ \E c \in LateConns, k \in -1..MaxJoinIndex : Subscribe(c, k)
    \/ \E c \in AllConns : Unsubscribe(c)

SpecStream == Init /\ [][NextStream]_vars

\* the event loop keeps running the producer coroutine, and the provider
\* stream delivers its next chunk, ends or raises
SpecStreamFair == SpecStream /\ WF_vars(Producer)

\* one TaskBuffer under add_message
NextBuf ==
    \/ \E msg_bytes \in MsgSizes : T_AddMessage(msg_bytes)
    \/ \E d \in TimeSteps : T_TimePasses(d)

InitBuf == Init /\ DOMAIN tasks = {ChatTask}

SpecBuf == InitBuf /\ [][NextBuf]_vars

\* the connection pool: connect, disconnect, time
NextPool ==
    \/ \E u \in Users : WsConnect(u)
    \/ \E c \in DOMAIN conn_index \cup {UnknownConn} : WsDisconnect(c)
    \/ \E d \in WsTimeSteps : T_TimePasses(d)

SpecPool == InitBuf /\ [][NextPool]_vars

\* task subscriptions and pushes over open connections
NextWs ==
    \/ \E p \in SubscribePairs, last_index \in LastIndexes :
          WsSubscribe(p[1], p[2], last_index)
    \/ \E c \in PresetConns, t \in ClearedTasks : WsUnsubscribe(c, t)
    \/ \E c \in PresetConns : \E ok \in SendOutcomes(c) : WsHandlerSend(c, ok)
    \/ \E t \in PushedTasks, msg_bytes \in WsMsgSizes : WsSend(t, msg_bytes)
    \/ \E t \in PushedTasks, c \in PresetConns : \E ok \in SendOutcomes(c) :
          WsFanoutSend(t, c, ok)
    \/ \E c \in ClosingConns \cup {UnknownConn} : WsDisconnect(c)
    \/ \E t \in ClearedTasks : WsClearTaskBuffer(t)

SpecWs == InitWs /\ [][NextWs]_vars

\* coroutines running start on one BackgroundTaskWorker, against time
NextWorker ==
    \/ \E w \in Loops : PollLoad(w)
    \/ \E t \in AllTasks, ans \in ProviderAnswers : PollQuery(t, ans)
    \/ Sweep
    \/ \E w \in Loops : SkipRound(w)
    \/ \E d \in ClockSteps : Tick(d)

SpecWorker == Init /\ [][NextWorker]_vars

\* check_and_acquire and release calls against each other
NextLimit ==
    \/ \E conv \in Conversations : CheckAndAcquire(conv)
    \/ \E r \in 1..MaxRequests : AcquireGetConv(r)
    \/ \E r \in 1..MaxRequests : AcquireIncr(r)
    \/ \E r \in 1..MaxRequests : Release(r)

SpecLimit == InitBuf /\ [][NextLimit]_vars

\* requests of send_message_stream, with Redis commands that fail
NextSlots ==
    \/ \E conv \in Conversations : CheckAndAcquire(conv)
    \/ \E r \in 1..MaxRequests : AcquireGetConv(r)
    \/ \E r \in 1..MaxRequests : AcquireIncr(r)
    \/ \E r \in 1..MaxRequests : AcquireDegraded(r)
    \/ \E r \in 1..MaxRequests, how \in StreamExits : StreamEnds(r, how)

SpecSlots == InitBuf /\ [][NextSlots]_vars

\* a resume request that polls the row, against the producer
NextFallback ==
    \/ Producer
    \/ ResumeRequest
    \/ ResumeLive
    \/ ResumeFallback
    \/ ResumePoll

SpecFallback == InitBuf /\ [][NextFallback]_vars

\* one polling loop, with queries that raise and writes that fail
NextPass ==
    \/ \E w \in {MainLoop} : PollLoad(w)
    \/ \E t \in AllTasks, ans \in ProviderAnswers : PollQuery(t, ans)
    \/ \E t \in AllTasks : PollQueryFails(t)
    \/ Sweep
    \/ \E d \in ClockSteps : Tick(d)

SpecPass == Init /\ [][NextPass]_vars

\* credit locks against the deductions of chat completions
NextCredit ==
    \/ \E amount \in Amounts : LockCredits(amount)
    \/ \E k \in 1..MaxCalls : LockGetBalance(k)
    \/ \E k \in 1..MaxCalls : LockUpdate(k)
    \/ \E k \in 1..MaxCalls : LockInsert(k)
    \/ \E amount \in DeductAmounts : DeductUserCredits(amount)

SpecCredit == InitBuf /\ [][NextCredit]_vars

\* lock_credits calls against each other
NextLock ==
    \/ \E amount \in Amounts : LockCredits(amount)
    \/ \E k \in 1..MaxCalls : LockGetBalance(k)
    \/ \E k \in 1..MaxCalls : LockUpdate(k)
    \/ \E k \in 1..MaxCalls : LockInsert(k)

SpecLock == InitBuf /\ [][NextLock]_vars

\* credit_lock blocks and refund_credits calls against each other
NextLedger ==
    \/ \E amount \in Amounts : CreditLock(amount)
    \/ \E k \in 1..MaxCalls : LockGetBalance(k)
    \/ \E k \in 1..MaxCalls : LockUpdate(k)
    \/ \E k \in 1..MaxCalls : LockInsert(k)
    \/ \E k \in 1..MaxCalls, how \in BodyExits : CtxBodyEnds(k, how)
    \/ \E tx \in RefundTargets : RefundCredits(tx)
    \/ \E k \in 1..MaxCalls : RefundRpc(k)
    \/ \E k \in 1..MaxCalls : RefundMark(k)

SpecLedger == InitBuf /\ [][NextLedger]_vars

\* buffers of finished tasks against the cleanup loop
NextExpire ==
    \/ \E t \in PushedTasks, msg_bytes \in WsMsgSizes : WsSend(t, msg_bytes)
    \/ \E t \in PushedTasks, delay_seconds \in DelaySeconds :
          WsMarkTaskCompleted(t, delay_seconds)
    \/ \E c \in HeartbeatConns : WsUpdateHeartbeat(c)
    \/ \E d \in SleepParts : WsCleanupSleep(d)
    \/ WsPeriodicCleanup

SpecExpire == InitWs /\ [][NextExpire]_vars

\* a client comes back to the chat task while the producer runs or after
NextResume ==
    \/ Producer
    \/ ResumeRequest
    \/ \E raises \in BOOLEAN : ResumeTerminal(raises)
    \/ ResumeLive

SpecResume == Init /\ [][NextResume]_vars

\* the registry of streams: starts, exits and done callbacks
NextRegistry ==
    \/ \E t \in StreamTasks : RegisterStream(t)
    \/ \E p \in 1..MaxStarts : ProducerExits(p)
    \/ \E p \in 1..MaxStarts : DoneCallback(p)

SpecRegistry == Init /\ [][NextRegistry]_vars

\* producer against poller only: no manual failure
NextRace ==
    \/ Producer
    \/ Poller
    \/ \E d \in ClockSteps : Tick(d)

SpecRace == Init /\ [][NextRace]_vars

(***************************************************************************)
(* Operators used by the properties.                                       *)
(***************************************************************************)
RECURSIVE SumSizes(_)
SumSizes(msgs) == IF msgs = <<>> THEN 0 ELSE Head(msgs).size + SumSizes(Tail(msgs))

IsSuffix(s, full) ==
    /\ Len(s) <= Len(full)
    /\ s = SubSeq(full, Len(full) - Len(s) + 1, Len(full))

\* the events of a queue, without the terminator
Events(q) == SelectSeq(q, LAMBDA m : m.type # "end")

CountType(q, type) == Cardinality({i \in 1..Len(q) : q[i].type = type})

LedgerCalls(t) == Cardinality({i \in 1..Len(ledger) : ledger[i].task = t})

(***************************************************************************)
(* Properties.                                                             *)
(***************************************************************************)

\* C1: the status of a task never moves backwards: a completed or failed
\* task keeps its status under every later write, and a running task does
\* not return to pending.
C1_StatusNeverMovesBack ==
    [][\A t \in DOMAIN tasks :
         /\ tasks[t].status \in Terminal => tasks'[t].status = tasks[t].status
         /\ tasks[t].status = "running" => tasks'[t].status # "pending"]_vars

\* C2: whatever the interleaving of the producer with the poller (provider
\* query, timeout sweep), a task makes at most one transition into a terminal
\* status and at most one credit-ledger call is made for it.
C2_FinalizedOnce ==
    \A t \in DOMAIN tasks : termCount[t] <= 1 /\ LedgerCalls(t) <= 1

\* C3: when the row of a task that the pass loaded as pending or running is
\* already completed or failed at the moment query_kie_and_update writes, the
\* write changes no field of the row and inserts no message.
C3_PollerWriteIsNoOp ==
    [][\A t \in DOMAIN tasks :
         (pollPc = "polling" /\ t \in toQuery /\ t \notin toQuery'
            /\ tasks[t].status \in Terminal)
         => (tasks'[t] = tasks[t] /\ messages' = messages)]_vars

\* C4: a connection that subscribed with last_received_index = k has in its
\* queue only events with index above k, in steps of exactly one, and every
\* event with index above k that the replay buffer holds.
C4_ReplayExact ==
    \A c \in LateConns :
        c \in subscribers =>
            LET q == Events(queue[c])
            IN  /\ \A i \in 1..Len(q) : q[i].idx > joinK[c]
                /\ \A i \in 1..(Len(q) - 1) : q[i + 1].idx = q[i].idx + 1
                /\ \A j \in 1..Len(buffer) :
                      buffer[j].idx > joinK[c] => \E i \in 1..Len(q) : q[i] = buffer[j]

\* C5 as stated: content:A, content:B, content:C carry the indices 0, 1, 2,
\* and a subscriber that joined with last_index = 0 is not sent content:A.
C5_AsStated ==
    /\ \A c \in AllConns : \A i \in 1..Len(queue[c]) :
          LET m == queue[c][i]
          IN  m.type = "content" =>
                 /\ m.text = "A" => m.idx = 0
                 /\ m.text = "B" => m.idx = 1
                 /\ m.text = "C" => m.idx = 2
    /\ \A c \in LateConns : joinK[c] = 0 =>
          \A i \in 1..Len(queue[c]) : queue[c][i].text # "A"

\* the queue of the three-chunk scenario, from the event with index first on
ScenarioEvents(first) ==
    LET all == <<[type |-> "start", text |-> "", idx |-> 0, credits |-> 0],
                 [type |-> "content", text |-> "A", idx |-> 1, credits |-> 0],
                 [type |-> "content", text |-> "B", idx |-> 2, credits |-> 0],
                 [type |-> "content", text |-> "C", idx |-> 3, credits |-> 0]>>
    IN  SubSeq(all, first + 1, 4)

ScenarioDone(q) ==
    /\ Len(q) = 1
    /\ q[1].type = "done"
    /\ q[1].idx = 4

ScenarioCompleted ==
    /\ exitPath = "completed"
    /\ full_content = <<"A", "B", "C">>

\* C5, amended: when a chat task has emitted the chunks A, B, C and completed,
\* the start event has index 0, content:A, content:B, content:C have the
\* indices 1, 2, 3 and done has index 4; a subscriber that joined with
\* last_index = 1 has been sent content:B, content:C and done only, and one
\* that joined with last_index = 0 has been sent content:A as well.
C5_Scenario ==
    ScenarioCompleted =>
        /\ FirstConn \in subscribers =>
              /\ SubSeq(queue[FirstConn], 1, 4) = ScenarioEvents(0)
              /\ ScenarioDone(SubSeq(Events(queue[FirstConn]), 5, 5))
              /\ Len(Events(queue[FirstConn])) = 5
        /\ \A c \in LateConns :
              (c \in subscribers /\ joinK[c] \in 0..1) =>
                 LET q == Events(queue[c])
                     n == 3 - joinK[c]
                 IN  /\ Len(q) = n + 1
                     /\ SubSeq(q, 1, n) = ScenarioEvents(joinK[c] + 1)
                     /\ ScenarioDone(SubSeq(q, n + 1, n + 1))

\* C5 witness: the scenario has completed and a subscriber that joined with
\* last_index = 1 holds the done event.
C5_Witness ==
    /\ ScenarioCompleted
    /\ \E c \in LateConns :
          /\ c \in subscribers
          /\ joinK[c] = 1
          /\ CountType(queue[c], "done") = 1
    /\ FirstConn \in subscribers

\* C6: the indices of the stored events go up in steps of exactly one, in
\* StreamState.buffer and in the TaskBuffer, also after evictions.
C6_IndexStepsByOne ==
    /\ \A i \in 1..(Len(buffer) - 1) : buffer[i + 1].idx = buffer[i].idx + 1
    /\ \A i \in 1..(Len(tbuf.messages) - 1) :
          tbuf.messages[i + 1].idx = tbuf.messages[i].idx + 1

\* C7: after every add_message the retained messages total at most
\* MAX_BUFFER_SIZE_BYTES, none was added more than BUFFER_MAX_AGE_SECONDS
\* before the call, and they are a suffix of everything that was added.
C7_BufferBounded ==
    /\ SumSizes(tbuf.messages) <= 1048576
    /\ \A i \in 1..Len(tbuf.messages) :
          tbuf.last_update - tbuf.messages[i].ts <= 300
    /\ IsSuffix(tbuf.messages, tlog)

\* C7 witness: one entry was evicted for its age, a younger one for the
\* size, and some are retained.
C7_Witness ==
    /\ tbuf.messages # <<>>
    /\ Len(tlog) - Len(tbuf.messages) >= 2
    /\ tbuf.last_update - tlog[1].ts > 300
    /\ \E i \in 1..(Len(tlog) - Len(tbuf.messages)) :
          tbuf.last_update - tlog[i].ts <= 300

\* C8: once the producer coroutine has run and exited, on whatever path, the
\* task is completed or failed.
C8_TerminalAfterExit ==
    (ppc = "exited" /\ exitPath # "unstarted") =>
        tasks[ChatTask].status \in Terminal

C11_DoneAfterFinalization ==
    \A c \in AllConns : \A i \in 1..Len(queue[c]) :
        LET m == queue[c][i]
        IN  (m.type = "done" /\ full_content # <<>>) =>
               /\ SubSeq(finalOps, 1, 4) = <<"create_message", "deduct_user_credits",
                                            "update_completed", "broadcast_done">>
               /\ tasks[ChatTask].status \in Terminal
               /\ tasks[ChatTask].total_credits = m.credits
               /\ LedgerCalls(ChatTask) = 1
               /\ \A j \in 1..Len(ledger) : ledger[j].amount = m.credits
               /\ m.text = "message"
               /\ \E j \in 1..Len(messages) :
                     /\ messages[j].kind = "assistant"
                     /\ messages[j].credits = m.credits
               /\ CountType(queue[c], "done") = 1
               /\ CountType(buffer, "done") = 1

\* C11 witness: a stream with output has completed with a billed amount
\* taken from the provider's usage, and two connections hold the done event.
C11_Witness ==
    /\ exitPath = "completed"
    /\ full_content # <<>>
    /\ Cardinality(subscribers) = 2
    /\ \A c \in subscribers :
          \E i \in 1..Len(queue[c]) :
             queue[c][i].type = "done" /\ queue[c][i].credits = 2

\* C12: a producer run that produced output ends with a credit deduction of
\* a positive amount: the amount of the provider's usage when one was
\* reported, otherwise the estimate from the length of the output.
C12_OutputIsBilled ==
    (ppc = "exited" /\ full_content # <<>>) =>
        /\ LedgerCalls(ChatTask) >= 1
        /\ \A j \in 1..Len(ledger) : ledger[j].amount >= 1

\* C13: a step that removes a subscriber changes nothing of the producer, of
\* the tasks table, of the replay buffer or of the other queues; every
\* connection that stays subscribed over a step in which the producer emits
\* an event gets exactly that event appended to its queue; and the producer
\* runs to its exit whoever has left.
C13_SubscribersDoNotMatter ==
    /\ [][/\ (subscribers' # subscribers /\ subscribers' \subseteq subscribers) =>
               /\ UNCHANGED <<dbVars, producerVars, active, buffer>>
               /\ \A c \in subscribers' : queue'[c] = queue[c]
          /\ (EmittedCount' = EmittedCount + 1) =>
               \A c \in subscribers :
                  /\ c \in subscribers'
                  /\ Events(queue'[c]) =
                        Append(Events(queue[c]), buffer'[Len(buffer')])]_vars
    /\ (ppc = "stream") ~> (ppc = "exited" /\ exitPath # "none")

\* C13 witness: of two subscribers the first has left, the producer has
\* completed after that, and the one that stayed holds the done event.
C13_Witness ==
    /\ FirstConn \notin subscribers
    /\ \E c \in LateConns :
          /\ c \in subscribers
          /\ joinK[c] = -1
          /\ CountType(queue[c], "done") = 1
          /\ CountType(queue[c], "content") >= 2
    /\ exitPath = "completed"
    /\ tasks[ChatTask].status = "completed"

\* the events of a task that the subscribe handler of c still has to send
PendingReplay(c, t) ==
    SelectSeq(handler[c], LAMBDA m : m.kind = "event" /\ m.task = t)

\* C14: buffered content of a task is read for, or sent to, a connection
\* over the WebSocket path only when the task belongs to the user of that
\* connection.
C14_OnlyOwnerReadsBuffer ==
    \A c \in DOMAIN conn_index : \A t \in WsTasks :
        (PendingReplay(c, t) # <<>> \/ received[c][t].seen # <<>>)
        => conn_index[c].user_id = TaskOwner(t)

\* C15: the indices of the events of a task that a connection has been sent
\* since its subscribe message, replay and live events together, are all
\* above last_index and go up in steps of exactly one.
C15_WsGapFreeInOrder ==
    \A c \in WsConnIds : \A t \in WsTasks :
        LET seen == received[c][t].seen
        IN  /\ \A i \in 1..Len(seen) : seen[i] > received[c][t].last
            /\ \A i \in 1..(Len(seen) - 1) : seen[i + 1] = seen[i] + 1

\* C16: send_to_task_subscribers puts the message into the TaskBuffer of the
\* task under the next index in the step in which it is called, before any
\* connection is sent it; and a subscribe message with last_index = k gets
\* scheduled for replay every message of the buffer with index above k.
C16_BufferedBeforeFanout ==
    [][/\ \A t \in WsTasks :
             (sentCount' = sentCount + 1 /\ t \in DOMAIN task_buffers'
                /\ (t \in DOMAIN task_buffers => task_buffers'[t] # task_buffers[t]))
             => LET idx == IF t \in DOMAIN task_buffers
                           THEN task_buffers[t].next_index ELSE 0
                    b == task_buffers'[t]
                IN  /\ b.next_index = idx + 1
                    /\ b.messages # <<>>
                    /\ b.messages[Len(b.messages)].idx = idx
                    /\ received' = received
                    /\ fanout'[t].pending = task_subscribers[t]
                    /\ fanout'[t].pending # {} => fanout'[t].idx = idx
       /\ \A c \in WsConnIds :
             (subCount' = subCount + 1 /\ handler'[c] # handler[c])
             => LET t == handler'[c][1].task
                    k == received'[c][t].last
                IN  t \in DOMAIN task_buffers =>
                       \A i \in 1..Len(task_buffers[t].messages) :
                          task_buffers[t].messages[i].idx > k =>
                             \E j \in 1..Len(handler'[c]) :
                                /\ handler'[c][j].kind = "event"
                                /\ handler'[c][j].task = t
                                /\ handler'[c][j].idx =
                                      task_buffers[t].messages[i].idx]_vars

\* C16 witness: two messages were sent, and a connection that subscribed
\* with last_index = 0 has been sent message 1 from the buffer.
C16_Witness ==
    /\ sentCount = 2
    /\ \E c \in DOMAIN conn_index :
          /\ received[c][ChatTask].last = 0
          /\ received[c][ChatTask].seen = <<1>>
          /\ handler[c] = <<>>
    /\ fanout[ChatTask].pending = {}

\* C17: no user ever has more than MAX_CONNECTIONS_PER_USER registered
\* connections, and a connect of a user who has that many removes one of the
\* user's connections with the least connected_at and registers the new one.
C17_ConnectionCap ==
    /\ [](\A u \in Users :
            /\ Len(connections[u]) <= MAX_CONNECTIONS_PER_USER
            /\ Cardinality({c \in DOMAIN conn_index : conn_index[c].user_id = u})
                  <= MAX_CONNECTIONS_PER_USER)
    /\ [][\A u \in Users :
            (nextConn' = nextConn + 1 /\ conn_index'[nextConn].user_id = u
               /\ Len(connections[u]) = MAX_CONNECTIONS_PER_USER)
            => \E old \in DOMAIN conn_index :
                  /\ conn_index[old].user_id = u
                  /\ \A i \in 1..Len(connections[u]) :
                        conn_index[old].connected_at
                           <= conn_index[connections[u][i]].connected_at
                  /\ DOMAIN conn_index' = (DOMAIN conn_index \ {old}) \cup {nextConn}
                  /\ connections'[u] = Append(RemoveFromSeq(connections[u], old),
                                              nextConn)]_vars

\* C17 witness: without any disconnect call, a user has the full number of
\* connections, the first of them is gone and a later one is registered.
C17_Witness ==
    /\ closed = {}
    /\ \E u \in Users :
          /\ Len(connections[u]) = MAX_CONNECTIONS_PER_USER
          /\ \E c \in 1..(nextConn - 1) : c \notin DOMAIN conn_index
          /\ \E i, j \in 1..Len(connections[u]) :
                conn_index[connections[u][i]].connected_at
                   < conn_index[connections[u][j]].connected_at

\* C18: a disconnect call leaves the connection in no registry: not in the
\* connection index, not in a user's pool, not in the subscriber set of any
\* task; with an unknown id it changes nothing.  No subscriber set ever
\* holds an id without a connection, and a connection that is gone is sent
\* nothing.
C18_DisconnectRemoves ==
    /\ [](\A t \in WsTasks : task_subscribers[t] \subseteq DOMAIN conn_index)
    /\ [][/\ \A c \in WsConnIds :
               (c \in closed' /\ c \notin closed) =>
                  /\ c \notin DOMAIN conn_index'
                  /\ \A u \in Users : \A i \in 1..Len(connections'[u]) :
                        connections'[u][i] # c
                  /\ \A t \in WsTasks : c \notin task_subscribers'[t]
                  /\ c \notin DOMAIN conn_index =>
                        UNCHANGED <<wsPoolVars, wsSendVars, sendFailed>>
          /\ \A c \in WsConnIds :
               c \notin DOMAIN conn_index => received'[c] = received[c]]_vars

\* C18 witness: a connection that had subscribed to both tasks has been
\* disconnected, and so has an id that no connection had.
C18_Witness ==
    /\ \E c \in closed :
          /\ c \in PresetConns
          /\ c \notin sendFailed
          /\ \A t \in WsTasks : received[c][t].last # -2
    /\ UnknownConn \in closed
    /\ sentCount >= 1

\* C19: a step in which a send to connection c fails removes c as
\* disconnect(c) does, keeps the rest of the fan-out pending, and changes no
\* other connection, no other subscription, no TaskBuffer and no task row.
C19_SendFailureIsLocal ==
    [][\A c \in WsConnIds :
          (c \in sendFailed' /\ c \notin sendFailed) =>
             /\ c \in DOMAIN conn_index
             /\ c \in closed'
             /\ DOMAIN conn_index' = DOMAIN conn_index \ {c}
             /\ \A x \in DOMAIN conn_index' : conn_index'[x] = conn_index[x]
             /\ \A u \in Users : connections'[u] = RemoveFromSeq(connections[u], c)
             /\ \A t \in WsTasks :
                   /\ task_subscribers'[t] = task_subscribers[t] \ {c}
                   /\ fanout[t].pending \ {c} \subseteq fanout'[t].pending
                   /\ fanout'[t].pending \subseteq fanout[t].pending
                   /\ fanout'[t].pending # {} => fanout'[t].idx = fanout[t].idx
             /\ \A x \in WsConnIds \ {c} : handler'[x] = handler[x]
             /\ UNCHANGED <<received, task_buffers, tasks, messages>>]_vars

\* C19 witness: a send to one of two subscribers of a task failed, and the
\* other one has been sent a message that the failed one has not.
C19_Witness ==
    \E c \in sendFailed : \E x \in DOMAIN conn_index :
        /\ received[c][ChatTask].last = -1
        /\ received[x][ChatTask].last = -1
        /\ x \in task_subscribers[ChatTask]
        /\ \E i \in 1..Len(received[x][ChatTask].seen) :
              \A j \in 1..Len(received[c][ChatTask].seen) :
                 received[c][ChatTask].seen[j] # received[x][ChatTask].seen[i]

\* the coroutines inside the async with block of start
InPass == {w \in Loops : loopPc[w] = "pass"}

\* C20: at most one polling pass (provider polling plus timeout sweep) is
\* executing at any time, and it is the one holding _poll_lock; a round that
\* starts while a pass has not finished is skipped: it leaves the lock, the
\* pass and the tasks table alone and its coroutine goes back to sleep, and
\* when the pass ends no coroutine is inside a pass, so a skipped round was
\* not queued behind it.
C20_OnePassAtATime ==
    /\ [](Cardinality(InPass) <= 1 /\ (pollPc = "polling" <=> InPass # {}))
    /\ [][\A w \in Loops :
            (w \in skipped' /\ w \notin skipped) =>
                /\ pollPc = "polling"
                /\ loopPc'[w] = "sleep"
                /\ UNCHANGED <<pollPc, toQuery, loopPc, dbVars>>]_vars
    /\ [][(pollPc = "polling" /\ pollPc' = "idle") =>
            \A w \in Loops : loopPc'[w] = "sleep"]_vars

\* a round was skipped while another coroutine is in the middle of a pass
\* that started some time ago and still has a task to query
C20_Witness ==
    \E w \in skipped :
        /\ loopPc[w] = "sleep"
        /\ \E v \in Loops \ {w} : loopPc[v] = "pass"
        /\ toQuery # {}
        /\ now > 0
        /\ \E t \in DOMAIN tasks : tasks[t].last_polled_at = now

\* C21: every terminal transition made by the poller (completion or failure
\* reported by the provider, timeout of the sweep) comes with exactly one
\* credit-ledger operation for that task.
C21_PollerTerminalIsBilled ==
    [][\A t \in DOMAIN tasks :
          (tasks[t].status \in NonTerminal /\ tasks'[t].status \in Terminal) =>
              LedgerCalls(t)' = LedgerCalls(t) + 1]_vars

\* the producers of task t whose coroutine has not finished
LiveProducers(t) ==
    {p \in 1..Len(producers) :
        producers[p].task_id = t /\ producers[p].pc = "running"}

\* C22: at any time a task id has at most one live producer, and its entry
\* in the registry of streams is taken away or replaced only by the done
\* callback of the producer the entry belongs to.
C22_OneProducerPerTask ==
    /\ [](\A t \in StreamTasks : Cardinality(LiveProducers(t)) <= 1)
    /\ [][\A t \in StreamTasks :
            (active_streams[t] # 0 /\ active_streams'[t] # active_streams[t]) =>
                /\ active_streams'[t] = 0
                /\ producers[active_streams[t]].pc = "exited"
                /\ producers'[active_streams[t]].pc = "removed"]_vars

\* C23: subscribe hands out a queue, and registers the subscriber, only while
\* the task has a live producer; once the producer coroutine has exited (by
\* success, error or cancellation), as before it was started, subscribe
\* returns no queue and registers nothing.
C23_QueueOnlyFromLiveProducer ==
    [][\A c \in LateConns :
          (c \notin subscribers /\ c \in subscribers') =>
              ppc \in {"start", "stream"}]_vars

\* C24: a subscriber that joins a live stream with last_index < 0 is given
\* the text produced so far once, as the accumulated snapshot, and not again
\* as replayed content events: snapshot and content events together are the
\* produced text, every chunk once.
C24_SnapshotNotReplayed ==
    \A c \in LateConns :
        (c \in subscribers /\ joinK[c] = -1) => DeliveredText(c) = full_content

\* C25: a client that comes back to a task that is already terminal gets the
\* persisted result: for a completed task one done event with the persisted
\* assistant message, for a failed task one error event, and then the
\* terminator.
C25_TerminalGetsPersistedResult ==
    resume.pc = "closed" =>
        /\ Len(resume.out) = 2
        /\ resume.out[2].type = "[DONE]"
        /\ resume.status = "completed" =>
              (resume.out[1].type = "done" /\ resume.out[1].data = "assistant")
        /\ resume.status = "failed" => resume.out[1].type = "error"

\* C26: mark_task_completed does not delete the buffer, it sets expire_at;
\* a buffer with expire_at set stays in place, with its messages, as long as
\* expire_at has not passed, whatever round of the cleanup loop runs; and the
\* first round that runs after expire_at deletes it.
C26_BufferKeptUntilExpireAt ==
    [][\A t \in DOMAIN task_buffers :
          LET b == task_buffers[t]
          IN  /\ (t \in DOMAIN task_buffers' /\ task_buffers'[t].expire_at # b.expire_at) =>
                     task_buffers'[t].messages = b.messages
              /\ (b.expire_at # -1 /\ tnow' <= b.expire_at) =>
                     /\ t \in DOMAIN task_buffers'
                     /\ sentCount' = sentCount =>
                           get_messages_after(task_buffers'[t], -1)
                             = get_messages_after(b, -1)
              /\ (b.expire_at # -1 /\ tnow > b.expire_at /\ cleanupWake' # cleanupWake) =>
                     t \notin DOMAIN task_buffers']_vars

\* the amounts taken from the balance by the first k calls
RECURSIVE TakenByCalls(_)
TakenByCalls(k) ==
    IF k = 0 THEN 0
    ELSE TakenByCalls(k - 1) + (IF calls[k].took THEN calls[k].amount ELSE 0)

\* the change_amount of the first i rows of credits_history, summed
RECURSIVE ChangedByHistory(_)
ChangedByHistory(i) ==
    IF i = 0 THEN 0 ELSE ChangedByHistory(i - 1) + credits_history[i].change_amount

LeftBlocks ==
    {k \in 1..Len(calls) : /\ calls[k].op = "credit_lock"
                           /\ calls[k].pc \in {"confirmed", "returned", "cancelled"}}

\* C28: a credit_lock block that has been left has applied exactly one of
\* confirm_deduct and refund_credits to the transaction it locked:
\* confirm_deduct after a normal end of the body, refund_credits after the
\* body raised; the transaction is never left pending.
C28_ConfirmOrRefund ==
    \A k \in LeftBlocks :
        /\ calls[k].exit = "normal" => credit_transactions[k].status = "confirmed"
        /\ calls[k].exit # "normal" => credit_transactions[k].status = "refunded"

\* C29: refund_credits gives the amount of a transaction back only while the
\* transaction is pending, so the refund of one transaction reaches the
\* balance at most once, also when refund_credits is called twice or
\* concurrently for it, and a transaction that is confirmed or refunded is
\* not refunded again.
C29_RefundAtMostOnce ==
    /\ [](\A tx \in DOMAIN refund_rpcs : refund_rpcs[tx] <= 1)
    /\ [][\A tx \in DOMAIN credit_transactions :
             credit_transactions[tx].status # "pending" =>
                 refund_rpcs'[tx] = refund_rpcs[tx]]_vars

\* call k raises InsufficientCreditsError in this step
RaisesInsufficient(k) ==
    /\ calls'[k].pc = "insufficient"
    /\ k \in 1..Len(calls) => calls[k].pc # "insufficient"

\* call k has the answer of get_balance in this step
ReadsBalance(k) ==
    \/ k \notin 1..Len(calls)
    \/ calls[k].pc = "read" /\ calls'[k].pc # "read"

\* C30: lock_credits takes the amount exactly when the balance at that moment
\* is at least the amount, an amount equal to the balance included; otherwise
\* it raises InsufficientCreditsError and leaves the balance and the
\* transactions as they were, so the balance is never negative however
\* lock_credits calls interleave.
C30_LockOnlyWhenCovered ==
    /\ [](users_credits >= 0)
    /\ [][\A k \in 1..Len(calls') :
            /\ (ReadsBalance(k) /\ users_credits >= calls'[k].amount)
                   => calls'[k].pc = "update"
            /\ RaisesInsufficient(k) =>
                   /\ users_credits < calls'[k].amount
                   /\ users_credits' = users_credits
                   /\ credit_transactions' = credit_transactions
            /\ (k \in 1..Len(calls) /\ ~calls[k].took /\ calls'[k].took) =>
                   /\ users_credits >= calls[k].amount
                   /\ users_credits' = users_credits - calls[k].amount]_vars

\* one call took an amount equal to the balance; another, that had read the
\* balance before, found it changed, started over and was refused
C30_Witness ==
    /\ \E k \in 1..Len(calls) :
          calls[k].took /\ calls[k].amount = calls[k].current_credits
    /\ \E k \in 1..Len(calls) :
          calls[k].pc = "insufficient" /\ calls[k].retries = 1
    /\ users_credits = 0

\* C31: a provider query that raises does not fail the task: the write of
\* that query changes last_polled_at and nothing else of the row, no message
\* is saved, and the next pass loads the task again as long as it is pending
\* or running.
C31_QueryFailureKeepsTask ==
    [][\A t \in DOMAIN tasks :
          /\ PollQuery(t, "raise") =>
                /\ tasks'[t] = [tasks[t] EXCEPT !.last_polled_at = now]
                /\ messages' = messages
                /\ ledger' = ledger
          /\ ((\E w \in Loops : PollLoad(w)) /\ tasks[t].status \in NonTerminal) =>
                t \in toQuery']_vars

\* the query of the chat task raised in an earlier pass; the task is still
\* pending and has been loaded again
C31_Witness ==
    /\ ChatTask \in DOMAIN tasks
    /\ tasks[ChatTask].last_polled_at # -1
    /\ tasks[ChatTask].status = "pending"
    /\ tasks[ChatTask].result = "none"
    /\ pollPc = "polling"
    /\ ChatTask \in toQuery

\* C32: in one pass every task that was loaded as pending or running is
\* queried exactly once: none twice, and the pass does not end before each
\* has been queried, also when the processing of one of them raised.
C32_EachLoadedTaskQueriedOnce ==
    /\ [](\A t \in AllTasks : polled[t] <= 1)
    /\ [][(pollPc = "polling" /\ pollPc' = "idle") =>
            \A t \in AllTasks : polled[t] \in {-1, 1}]_vars

\* both generation tasks of the batch have been processed; the processing of
\* gen-1 raised and wrote nothing, gen-2 was written after it
C32_Witness ==
    /\ pollPc = "polling"
    /\ toQuery = {}
    /\ polled["gen-1"] = 1
    /\ polled["gen-2"] = 1
    /\ tasks["gen-1"].last_polled_at = -1
    /\ tasks["gen-2"].last_polled_at # -1

\* the text the polling branch has delivered: the accumulated event and the
\* content events, in order
RECURSIVE TextOf(_)
TextOf(events) ==
    IF events = <<>> THEN <<>>
    ELSE (IF Head(events).type \in {"accumulated", "content"}
          THEN Head(events).text ELSE <<>>) \o TextOf(Tail(events))

\* C33: in the polling branch of the resume stream the accumulated event
\* followed by the content increments concatenates to exactly the
\* accumulated_content the last read of the row returned: nothing is missing
\* and nothing is sent twice.
C33_PolledTextIsPersistedText ==
    resume.pc \in {"poll", "ended"} => TextOf(resume.out) = resume.accumulated_content

\* the response sent an accumulated event and, after the producer wrote more,
\* a content increment, and has ended
C33_Witness ==
    /\ resume.pc = "ended"
    /\ Len(resume.out) >= 3
    /\ resume.out[1].type = "accumulated"
    /\ resume.out[2].type = "content"
    /\ resume.out[2].text # <<>>

\* the requests that hold a slot, of the user and in one conversation
Holders == {r \in 1..Len(requests) : requests[r].pc = "held"}
HoldersIn(conv) == {r \in Holders : requests[r].conversation_id = conv}

\* C34: however check_and_acquire and release calls interleave, the slots
\* one user holds at the same time never exceed the global limit and those
\* held for one conversation never exceed the conversation limit; a request
\* that is rejected changes no counter.
C34_SlotsWithinLimits ==
    /\ [](/\ Cardinality(Holders) <= global_limit
          /\ \A conv \in Conversations :
                Cardinality(HoldersIn(conv)) <= conversation_limit)
    /\ [][(\E r \in 1..Len(requests') :
              /\ requests'[r].pc = "rejected"
              /\ r \in 1..Len(requests) => requests[r].pc # "rejected")
          => counters' = counters]_vars

\* the requests whose call of check_and_acquire returned True
Admitted == {r \in 1..Len(requests) : requests[r].pc \in {"held", "ended"}}

\* C38: a slot taken for a streamed message is released exactly once when
\* the stream ends, by whatever path, and release decrements only what
\* check_and_acquire incremented: no counter is ever negative, and when every
\* stream has ended the counters are back at 0.
C38_SlotReleasedOnce ==
    /\ \A k \in LimitKeys : counters[k] >= 0
    /\ \A r \in Admitted :
          /\ requests[r].decremented > 0 => requests[r].incremented
          /\ (requests[r].pc = "ended" /\ requests[r].incremented) =>
                requests[r].decremented = 1
    /\ (\A r \in 1..Len(requests) : requests[r].pc \in {"ended", "rejected"}) =>
          \A k \in LimitKeys : counters[k] = 0

\* the end-of-stream sentinel has been put into the queue of c
HasSentinel(c) == \E i \in 1..Len(queue[c]) : queue[c][i] = Sentinel

\* C35: every queue handed out by start_stream_processing or subscribe
\* eventually receives the end-of-stream sentinel, however subscribe
\* interleaves with the last broadcast of the producer and the removal of the
\* stream from the registry: no subscriber stays registered without it.
C35_EveryQueueGetsTheEnd ==
    \A c \in AllConns : (c \in subscribers) ~> (c \notin subscribers \/ HasSentinel(c))

\* the registries of the WebSocketManager under every operation that changes
\* them: connect, disconnect, subscribe, unsubscribe, clear, failing sends
\* and the cleanup loop
\* the user who opens further connections, the sleep of the cleanup loop
\* taken in one piece, and the subscribe messages that arrive: the closing
\* connection asks for the generation task, the flaky one for the chat task,
\* both from the start
ConnectingUsers == {"u1"}
WholeSleeps == {BUFFER_CLEANUP_INTERVAL}
IndexPairs == {<<1, "gen-1">>, <<2, ChatTask>>}
FromTheStart == {-1}

NextIndex ==
    \/ \E u \in ConnectingUsers : WsConnect(u)
    \/ \E c \in ClosingConns \cup {UnknownConn} : WsDisconnect(c)
    \/ \E p \in IndexPairs, last_index \in FromTheStart :
          WsSubscribe(p[1], p[2], last_index)
    \/ \E c \in PresetConns, t \in ClearedTasks : WsUnsubscribe(c, t)
    \/ \E c \in PresetConns : \E ok \in SendOutcomes(c) : WsHandlerSend(c, ok)
    \/ \E t \in PushedTasks, msg_bytes \in WsMsgSizes : WsSend(t, msg_bytes)
    \/ \E t \in PushedTasks, c \in PresetConns : \E ok \in SendOutcomes(c) :
          WsFanoutSend(t, c, ok)
    \/ \E t \in WsTasks : WsClearTaskBuffer(t)
    \/ \E d \in WholeSleeps : WsCleanupSleep(d)
    \/ WsPeriodicCleanup

SpecIndex == InitWs /\ [][NextIndex]_vars

\* C36: after any sequence of connect, disconnect, subscribe_task,
\* unsubscribe_task, clear_task_buffer, send failures and sweeps the indexes
\* of the WebSocketManager agree: a connection id is in the connection index
\* iff it is in the pool of its user (and of no other), every id in the
\* subscriber set of a task is a registered connection whose subscribed_tasks
\* holds that task, and no key of _connections or _task_subscribers has an
\* empty pool or an empty set under it
C36_IndexesAgree ==
    /\ \A c \in DOMAIN conn_index : \A u \in Users :
          c \in PoolOf(u) <=> u = conn_index[c].user_id
    /\ \A u \in Users : PoolOf(u) \subseteq DOMAIN conn_index
    /\ \A t \in WsTasks : \A c \in task_subscribers[t] :
          /\ c \in DOMAIN conn_index
          /\ t \in conn_index[c].subscribed_tasks
    /\ connections_keys = {u \in Users : PoolOf(u) # {}}
    /\ task_subscribers_keys = {t \in WsTasks : task_subscribers[t] # {}}

\* a connection that had subscribed to a task was the last one of its set
\* and has been removed after a send to it failed, the cleanup loop has made
\* a round, and a connection made later is registered
C36_Witness ==
    /\ \E c \in sendFailed \ DOMAIN conn_index : \E t \in WsTasks :
          /\ received[c][t].last # -2
          /\ t \notin task_subscribers_keys
    /\ cleanupWake > BUFFER_CLEANUP_INTERVAL
    /\ \E c \in DOMAIN conn_index : c \notin PresetConns

\* C37: a buffered event replayed to a subscriber is the message the live
\* subscribers were sent, message_index included: whenever the subscribe
\* handler writes a missed event to the socket of a connection, what it
\* writes is the live message of that task with the index under which the
\* TaskBuffer holds it
C37_ReplayedIsLiveMessage ==
    [][\A c \in WsConnIds :
          (/\ handler[c] # <<>>
           /\ Head(handler[c]).kind = "event"
           /\ handler'[c] = Tail(handler[c])
           /\ received'[c] # received[c])
          => LET sent == Head(handler[c])
             IN  /\ "message_index" \in DOMAIN sent.msg
                 /\ sent.msg = LiveMessage(sent.task, sent.idx)]_vars

====
